---- MODULE Spec2Model ----
(***************************************************************************)
(* PrivShare (0G storage file sharing): the segmented download of          *)
(* ZgStorageService, the share-code mapping layer (Pinata/IPFS and the     *)
(* 0G/localStorage variant) and the upload/download hooks that drive them. *)
(*                                                                         *)
(* Seven specifications share the variables:                               *)
(*   SpecDownload : one ZgStorageService.downloadFile call, await by await *)
(*   SpecIPFS     : the Pinata operations of lib/ipfs-mapping.ts           *)
(*   Spec0G       : storeMappingTo0G / getMappingFrom0G and localStorage   *)
(*   SpecHooks    : useFileUpload / useFileDownload mutations              *)
(*   SpecCodes    : the share-code functions called on their own           *)
(*   SpecWallet   : useFileUpload while the connected wallet changes       *)
(*   SpecService  : concurrent calls on one ZgStorageService instance and  *)
(*                  the mount of ZgStorageProvider                         *)
(* External collaborators (storage nodes, the SDK Downloader, Pinata, the  *)
(* cipher) answer nondeterministically within what their state allows.     *)
(***************************************************************************)
EXTENDS Integers, Sequences, FiniteSets, TLC

\* ---------------------------------------------------------------- bounds
MaxNodes == 2
MaxSegments == 2
MaxPins == 2
MaxUploads == 1
MaxDownloads == 1

\* ------------------------------------------------------- program constants
DEFAULT_CHUNK_SIZE == 256
DEFAULT_SEGMENT_MAX_CHUNKS == 1024

Undefined == "undefined"

VARIABLES
  \* --- ZgStorageService.downloadFile -----------------------------------
  locations,     \* what indexer.getFileLocations answers: a sequence of node ids
  nodeMode,      \* node id -> "healthy" | "down" | "flaky"
  file,          \* the stored file's info: [size, startEntryIndex, uploadedSegNum]
  withProof,     \* downloadFile's second argument
  pc,            \* position of the downloadFile call
  nodeIdx,       \* loop variable of the getFileInfo loops
  taskInd,       \* loop variable of the task / segment loops
  segments,      \* the segments array being filled
  calls,         \* every request made to a collaborator, in order
  result,        \* the DownloadResult, once returned
  \* --- lib/ipfs-mapping.ts ---------------------------------------------
  pins,          \* documents pinned on Pinata/IPFS, oldest first
  pinataConfigured, \* whether VITE_PINATA_JWT or the API key pair is set
  localStorage,  \* window.localStorage: key -> JSON text
  cacheMode,     \* "working" | "unavailable" | "full"
  published,     \* share code -> record last passed to storeMappingTo0G
  lastOp,        \* the last mapping operation: what it was given, did and answered
  \* --- hooks -------------------------------------------------------------
  up,            \* useFileUpload: the running mutation and the hook's state
  dl,            \* useFileDownload: the running mutation and the hook's state
  uploaded,      \* uploads that completed: share code -> root hash returned
  \* --- wallet, ZgStorageService instance, ZgStorageProvider ---------------
  wallet,        \* useAccount's address and the hook's lastAddress
  svc,           \* the page's SDK script and one service instance with its callers
  provider       \* ZgStorageProvider's state: zgStorage, isConnected, error

dlVars == <<locations, nodeMode, file, withProof, pc, nodeIdx, taskInd, segments, calls, result>>
mapVars == <<pins, pinataConfigured, localStorage, cacheMode, published, lastOp>>
hookVars == <<up, dl, uploaded>>
svcVars == <<wallet, svc, provider>>
vars == <<dlVars, mapVars, hookVars, svcVars>>

\* ======================================================================
\* Segment arithmetic
\* ======================================================================

\* Math.ceil(a / b) for a >= 0, b > 0
CeilDiv(a, b) == (a + b - 1) \div b

Min(a, b) == IF a < b THEN a ELSE b

\* part_002:583
NumChunks(size) == CeilDiv(size, DEFAULT_CHUNK_SIZE)

\* part_002:584
StartSegmentIndex(f) == f.startEntryIndex \div DEFAULT_SEGMENT_MAX_CHUNKS

\* The segment index of the entry after the last one.
EndSegmentIndexOpen(f) ==
  (f.startEntryIndex + NumChunks(f.size)) \div DEFAULT_SEGMENT_MAX_CHUNKS

\* part_002:585
EndSegmentIndex(f) ==
  (f.startEntryIndex + NumChunks(f.size) - 1) \div DEFAULT_SEGMENT_MAX_CHUNKS

\* part_002:586
NumTasks(f) == EndSegmentIndex(f) - StartSegmentIndex(f) + 1

\* part_002:724  fileInfo.uploadedSegNum || fileInfo.numSegments || 1
\* (a storage node's file info carries no numSegments field)
NumSegments(f) == IF f.uploadedSegNum # 0 THEN f.uploadedSegNum ELSE 1

\* A span that is never cut at the end of the file.
FallbackRangeFull(f, i) ==
  [startIndex |-> i * DEFAULT_SEGMENT_MAX_CHUNKS,
   endIndex   |-> i * DEFAULT_SEGMENT_MAX_CHUNKS + DEFAULT_SEGMENT_MAX_CHUNKS]

\* part_002:742-743
FallbackRange(f, i) ==
  [startIndex |-> i * DEFAULT_SEGMENT_MAX_CHUNKS,
   endIndex   |-> Min(i * DEFAULT_SEGMENT_MAX_CHUNKS + DEFAULT_SEGMENT_MAX_CHUNKS,
                      NumChunks(f.size))]

\* part_002:609-615  downloadTask(fileInfo, 0, taskInd, numChunks, withProof):
\* the chunk range of segment segmentOffset + taskInd, cut at numChunks
TaskRange(f, t) ==
  [startIndex |-> (0 + t) * DEFAULT_SEGMENT_MAX_CHUNKS,
   endIndex   |-> Min((0 + t) * DEFAULT_SEGMENT_MAX_CHUNKS + DEFAULT_SEGMENT_MAX_CHUNKS,
                      NumChunks(f.size))]

\* A node holds chunks [0, numChunks) of the file; a range outside is refused.
ValidRange(f, r) ==
  /\ 0 <= r.startIndex
  /\ r.startIndex < r.endIndex
  /\ r.endIndex <= NumChunks(f.size)

\* The bytes of a chunk range, as an honest node serves them.
Payload(r) == [startIndex |-> r.startIndex, endIndex |-> r.endIndex, bytes |-> "stored"]

\* Bytes of the right length that are not the stored ones.
Corrupt(r) == [startIndex |-> r.startIndex, endIndex |-> r.endIndex, bytes |-> "altered"]

\* The stored byte stream: every segment of the file, ascending.
StoredSegmentCount(size) == CeilDiv(NumChunks(size), DEFAULT_SEGMENT_MAX_CHUNKS)

StoredData(f) ==
  [i \in 1..StoredSegmentCount(f.size) |-> Payload(FallbackRange(f, i - 1))]

\* ======================================================================
\* Share codes (lib/ipfs-mapping.ts). A string is the sequence of its
\* characters.
\* ======================================================================

Lower == {"a","b","c","d","e","f","g","h","i","j","k","l","m",
          "n","o","p","q","r","s","t","u","v","w","x","y","z"}
Digits == {"0","1","2","3","4","5","6","7","8","9"}
\* [a-z0-9]
Alnum == Lower \cup Digits

\* ipfs-mapping.ts:268
SHARE_CODE_PREFIX == <<"p","r","i","v","s","h","a","r","e",":","/","/","0","g","-">>
\* ipfs-mapping.ts:269
SHARE_CODE_BODY_GROUPS == 4
\* ipfs-mapping.ts:270
SHARE_CODE_GROUP_LENGTH == 4

StartsWith(s, pre) == Len(s) >= Len(pre) /\ SubSeq(s, 1, Len(pre)) = pre

\* The pattern without its end anchor: whatever follows a well-formed code passes.
validateShareCodeUnanchored(shareCode) ==
  LET n == Len(SHARE_CODE_PREFIX) IN
  /\ Len(shareCode) >= n + 19
  /\ StartsWith(shareCode, SHARE_CODE_PREFIX)
  /\ \A i \in 1..19 :
       IF i \in {5, 10, 15}
       THEN shareCode[n + i] = "-"
       ELSE shareCode[n + i] \in Alnum

\* ipfs-mapping.ts:238-251
\* /^privshare:\/\/0g-[a-z0-9]{4}-[a-z0-9]{4}-[a-z0-9]{4}-[a-z0-9]{4}$/
validateShareCode(shareCode) ==
  LET n == Len(SHARE_CODE_PREFIX) IN
  /\ Len(shareCode) = n + 19
  /\ StartsWith(shareCode, SHARE_CODE_PREFIX)
  /\ \A i \in 1..19 :
       IF i \in {5, 10, 15}
       THEN shareCode[n + i] = "-"
       ELSE shareCode[n + i] \in Alnum

\* ipfs-mapping.ts:287-293
\* ^${PREFIX}([a-z0-9]{GROUP_LENGTH}-){GROUPS - 1}[a-z0-9]{GROUP_LENGTH}$
validateShareCode_0G(code) ==
  LET n == Len(SHARE_CODE_PREFIX)
      g == SHARE_CODE_GROUP_LENGTH
      k == SHARE_CODE_BODY_GROUPS
  IN
  /\ code # <<>>
  /\ StartsWith(code, SHARE_CODE_PREFIX)
  /\ Len(code) = n + (k - 1) * (g + 1) + g
  /\ \A grp \in 0..(k - 1) :
       /\ \A c \in 1..g : code[n + grp * (g + 1) + c] \in Alnum
       /\ grp < k - 1 => code[n + grp * (g + 1) + g + 1] = "-"

\* String.prototype.replace(pattern, '') with a string pattern: the first
\* occurrence is removed, wherever it is; a string without one is unchanged.
ReplaceFirst(s, pat) ==
  LET hits == {i \in 1..(Len(s) - Len(pat) + 1) : SubSeq(s, i, i + Len(pat) - 1) = pat}
  IN IF hits = {} THEN s
     ELSE LET i == CHOOSE x \in hits : \A y \in hits : x <= y
          IN SubSeq(s, 1, i - 1) \o SubSeq(s, i + Len(pat), Len(s))

\* ipfs-mapping.ts:256-260 (no validation)
extractCodeFromShareCode(shareCode) == ReplaceFirst(shareCode, SHARE_CODE_PREFIX)

\* The share codes handed to the operations: two well-formed ones, one with
\* too few groups, one with an uppercase group.
CodeA == SHARE_CODE_PREFIX \o <<"a","b","1","2","-","c","d","3","4","-","e","f","5","6","-","g","h","7","8">>
CodeB == SHARE_CODE_PREFIX \o <<"z","z","9","9","-","0","0","0","0","-","a","a","a","a","-","b","1","b","1">>
CodeTooFew == SHARE_CODE_PREFIX \o <<"a","b","1","2","-","c","d","3","4","-","e","f","5","6">>
CodeUpper == SHARE_CODE_PREFIX \o <<"A","B","1","2","-","c","d","3","4","-","e","f","5","6","-","g","h","7","8">>
ShareCodes == {CodeA, CodeB, CodeTooFew, CodeUpper}

\* ipfs-mapping.ts:213, 271: the alphabet, indexed from 0 as charAt does
SHARE_CODE_ALPHABET ==
  <<"a","b","c","d","e","f","g","h","i","j","k","l","m",
    "n","o","p","q","r","s","t","u","v","w","x","y","z",
    "0","1","2","3","4","5","6","7","8","9">>
CharAt(s, idx) == s[idx + 1]

\* Array.prototype.join('-')
RECURSIVE Join(_)
Join(groups) ==
  IF Len(groups) = 0 THEN <<>>
  ELSE IF Len(groups) = 1 THEN groups[1]
  ELSE groups[1] \o <<"-">> \o Join(Tail(groups))

\* result.match(/.{1,4}/g): the string cut into pieces of four, the last one shorter
RECURSIVE MatchUpTo4(_)
MatchUpTo4(s) ==
  IF Len(s) = 0 THEN <<>>
  ELSE IF Len(s) <= 4 THEN <<s>>
  ELSE <<SubSeq(s, 1, 4)>> \o MatchUpTo4(SubSeq(s, 5, Len(s)))

\* A code cut after the namespace only.
generateRandomShareCodeUngrouped(draws) ==
  <<"p","r","i","v","s","h","a","r","e",":","/","/">> \o <<"0","g","-">>
    \o [i \in 1..16 |-> CharAt(SHARE_CODE_ALPHABET, draws[i])]

\* ipfs-mapping.ts:212-233. draws[i] is Math.floor(Math.random() * chars.length)
\* of the i-th iteration.
generateRandomShareCode(draws) ==
  LET raw == [i \in 1..16 |-> CharAt(SHARE_CODE_ALPHABET, draws[i])]
      formatted == <<"0","g","-">> \o Join(MatchUpTo4(raw))
  IN <<"p","r","i","v","s","h","a","r","e",":","/","/">> \o formatted

\* ipfs-mapping.ts:273-285: randomGroup for each of the groups, joined by '-'
generateShareCode(draws) ==
  LET g == SHARE_CODE_GROUP_LENGTH
      randomGroup(k) == [i \in 1..g |-> SHARE_CODE_ALPHABET[draws[(k - 1) * g + i] + 1]]
  IN SHARE_CODE_PREFIX \o Join([k \in 1..SHARE_CODE_BODY_GROUPS |-> randomGroup(k)])

\* ======================================================================
\* JSON and objects. An object is a function from its keys; reading a key
\* it lacks gives undefined.
\* ======================================================================

Get(obj, key) == IF key \in DOMAIN obj THEN obj[key] ELSE Undefined

\* JSON.stringify: a key whose value is undefined is left out.
JSONStringify(obj) == {<<k, obj[k]>> : k \in {x \in DOMAIN obj : obj[x] # Undefined}}

\* JSON.parse
JSONParse(text) == [k \in {p[1] : p \in text} |-> (CHOOSE p \in text : p[1] = k)[2]]

\* a || b for strings and numbers: the empty string, 0 and undefined are falsy
\* Values inside JavaScript objects are written as their JSON text: numbers
\* and booleans as strings, a missing value as Undefined.
Bool(b) == IF b THEN "true" ELSE "false"
Falsy(v) == v \in {Undefined, "", "0", "false"}
OrElse(a, b) == IF Falsy(a) THEN b ELSE a

\* ======================================================================
\* Mapping persistence (lib/ipfs-mapping.ts)
\* ======================================================================

\* null where an object is expected
Null == [null |-> "null"]

\* What an operation was given, which requests it made, and how it ended.
Threw(op, code, io, msg) ==
  [op |-> op, code |-> code, io |-> io, outcome |-> "threw", error |-> msg, value |-> Null]
Returned(op, code, io, v) ==
  [op |-> op, code |-> code, io |-> io, outcome |-> "returned", error |-> Undefined, value |-> v]
NoOp == [op |-> "none", code |-> <<>>, io |-> {}, outcome |-> "none", error |-> Undefined, value |-> Null]

\* ---------------------------------------------------------------- Pinata

\* The metadata useFileUpload passes (useFilePreview.ts:226-237): of a plain
\* file and of an encrypted one.
Metadatas ==
  {[fileName |-> "a.txt", fileSize |-> "257", mimeType |-> "text/plain",
    isEncrypted |-> Bool(e), encryptionKey |-> IF e THEN "key1" ELSE Undefined,
    iv |-> IF e THEN "iv1" ELSE Undefined,
    uploader |-> "0xabc", uploadTime |-> "1700", txHash |-> "0xtx1"] : e \in BOOLEAN}

\* Root hashes as uploadFile returns them (part_002:456: the empty string
\* when neither the upload result nor the Merkle tree gives one).
RootHashes == {"", "0xroot1"}

\* ipfs-mapping.ts:60-91 (the fields later read back)
CompleteMetadata(shareCode, rootHash, metadata) ==
  [shareCode |-> shareCode,
   rootHash |-> rootHash,
   provider |-> "0g-storage",
   fileName |-> metadata.fileName,
   fileSize |-> metadata.fileSize,
   mimeType |-> metadata.mimeType,
   isEncrypted |-> metadata.isEncrypted,
   encryptionKey |-> metadata.encryptionKey,
   iv |-> metadata.iv,
   uploader |-> OrElse(metadata.uploader, "anonymous"),
   uploadTime |-> OrElse(metadata.uploadTime, "1700"),
   txHash |-> metadata.txHash]

\* ipfs-mapping.ts:102-112: the body posted to /pinning/pinJSONToIPFS
PinBody(shareCode, rootHash, metadata) ==
  [pinataContent |-> JSONStringify(CompleteMetadata(shareCode, rootHash, metadata)),
   keyvalues |-> [shareCode |-> ReplaceFirst(shareCode, SHARE_CODE_PREFIX),
                  rootHash |-> rootHash]]

\* What Pinata answers a request with: response.ok or not.
PinataAnswers == {"ok", "httpError"}

\* ipfs-mapping.ts:57-131. Gives the pins afterwards and the operation's record.
storeMappingToIPFS(shareCode, rootHash, metadata, answer) ==
  IF ~pinataConfigured
  THEN [pins |-> pins,
        op |-> Threw("storeMappingToIPFS", shareCode, {}, "Pinata configuration missing")]
  ELSE IF answer # "ok"
  THEN [pins |-> pins,
        op |-> Threw("storeMappingToIPFS", shareCode, {"POST pinJSONToIPFS"}, "Pinata API error")]
  ELSE [pins |-> Append(pins, PinBody(shareCode, rootHash, metadata)),
        op |-> Returned("storeMappingToIPFS", shareCode, {"POST pinJSONToIPFS"},
                        [shareCode |-> shareCode, rootHash |-> rootHash])]

\* Pins whose keyvalues.shareCode equals the searched value (pinList, op eq)
PinRows(code) == {i \in 1..Len(pins) : pins[i].keyvalues.shareCode = code}

\* ipfs-mapping.ts:168-187
MappingDataOf(mappingData) ==
  [shareCode |-> Get(mappingData, "shareCode"),
   pieceCid |-> Get(mappingData, "rootHash"),
   metadata |-> [fileName |-> Get(mappingData, "fileName"),
                 fileSize |-> Get(mappingData, "fileSize"),
                 mimeType |-> Get(mappingData, "mimeType"),
                 isEncrypted |-> Get(mappingData, "isEncrypted"),
                 encryptionKey |-> Get(mappingData, "encryptionKey"),
                 iv |-> Get(mappingData, "iv"),
                 uploader |-> Get(mappingData, "uploader"),
                 uploadTime |-> Get(mappingData, "uploadTime")],
   rootHash |-> Get(mappingData, "rootHash"),
   txHash |-> Get(mappingData, "txHash"),
   provider |-> Get(mappingData, "provider")]

\* ipfs-mapping.ts:136-199: row is rows[0] of the search, 0 when it is empty;
\* every failure is caught and answered with null.
getMappingFromIPFS(name, shareCode, search, row, gateway) ==
  LET code == extractCodeFromShareCode(shareCode) IN
  IF ~pinataConfigured THEN Returned(name, shareCode, {}, Null)
  ELSE IF search # "ok" THEN Returned(name, shareCode, {"GET pinList"}, Null)
  ELSE IF row = 0 THEN Returned(name, shareCode, {"GET pinList"}, Null)
  ELSE IF gateway # "ok" THEN Returned(name, shareCode, {"GET pinList", "GET ipfs"}, Null)
  ELSE Returned(name, shareCode, {"GET pinList", "GET ipfs"},
                MappingDataOf(JSONParse(pins[row].pinataContent)))

\* ipfs-mapping.ts:204-207: mappingData?.pieceCid || null
getCidFromIPFS(shareCode, search, row, gateway) ==
  LET m == getMappingFromIPFS("getCidFromIPFS", shareCode, search, row, gateway) IN
  [m EXCEPT !.value = IF m.value = Null THEN Null ELSE OrElse(m.value.pieceCid, Null)]

\* rows[0] of a pinList search: one of the matching pins, none if there is none
FirstRows(shareCode) ==
  LET rows == PinRows(extractCodeFromShareCode(shareCode)) IN
  IF rows = {} THEN {0} ELSE rows

InitIPFS ==
  /\ pins = <<>>
  /\ pinataConfigured \in BOOLEAN
  /\ lastOp = NoOp

StoreMappingToIPFS ==
  /\ Len(pins) < MaxPins
  /\ \E shareCode \in ShareCodes, rootHash \in RootHashes, metadata \in Metadatas,
        answer \in PinataAnswers :
       LET r == storeMappingToIPFS(shareCode, rootHash, metadata, answer) IN
       /\ pins' = r.pins
       /\ lastOp' = r.op
  /\ UNCHANGED <<pinataConfigured, localStorage, cacheMode, published, dlVars, hookVars, svcVars>>

GetMappingFromIPFS ==
  /\ \E shareCode \in ShareCodes, search \in PinataAnswers, gateway \in PinataAnswers :
       \E row \in FirstRows(shareCode) :
         lastOp' = getMappingFromIPFS("getMappingFromIPFS", shareCode, search, row, gateway)
  /\ UNCHANGED <<pins, pinataConfigured, localStorage, cacheMode, published, dlVars, hookVars, svcVars>>

GetCidFromIPFS ==
  /\ \E shareCode \in ShareCodes, search \in PinataAnswers, gateway \in PinataAnswers :
       \E row \in FirstRows(shareCode) :
         lastOp' = getCidFromIPFS(shareCode, search, row, gateway)
  /\ UNCHANGED <<pins, pinataConfigured, localStorage, cacheMode, published, dlVars, hookVars, svcVars>>

NextIPFS ==
  \/ StoreMappingToIPFS
  \/ GetMappingFromIPFS
  \/ GetCidFromIPFS

\* ------------------------------------------------- 0G and localStorage

\* ipfs-mapping.ts:295-298
extractCodeFromShareCode_0G(code) ==
  IF ~validateShareCode_0G(code) THEN Undefined
  ELSE ReplaceFirst(code, SHARE_CODE_PREFIX)

\* One cache key for every share code: the template without its placeholder.
MappingKeyShared(shareCode) == <<"privshare:mapping:">>

\* `privshare:mapping:${shareCode}` (ipfs-mapping.ts:314, 325)
MappingKey(shareCode) == <<"privshare:mapping:">> \o shareCode

SetItem(ls, key, text) ==
  [k \in DOMAIN ls \cup {key} |-> IF k = key THEN text ELSE ls[k]]

\* typeof window !== 'undefined' && window.localStorage (ipfs-mapping.ts:313, 324)
CacheAccess(call) == IF cacheMode = "unavailable" THEN {} ELSE {call}

\* ipfs-mapping.ts:311-320: nothing is written when localStorage is missing
\* or setItem throws (the exception is swallowed).
saveMappingLocally(ls, shareCode, record) ==
  IF cacheMode = "working"
  THEN SetItem(ls, MappingKey(shareCode), JSONStringify(record))
  ELSE ls

\* ipfs-mapping.ts:322-336
loadMappingLocally(ls, shareCode) ==
  IF cacheMode = "unavailable" THEN Null
  ELSE IF MappingKey(shareCode) \in DOMAIN ls
  THEN JSONParse(ls[MappingKey(shareCode)])
  ELSE Null

\* MappingRecord values handed to storeMappingTo0G (ipfs-mapping.ts:300-309)
MappingRecords ==
  {[rootHash |-> r, iv |-> v,
    fileName |-> IF full THEN "a.txt" ELSE Undefined,
    fileSize |-> IF full THEN "257" ELSE Undefined,
    mimeType |-> IF full THEN "text/plain" ELSE Undefined,
    uploader |-> IF full THEN "0xabc" ELSE Undefined,
    uploadTime |-> IF full THEN "1700" ELSE Undefined,
    txHash |-> Undefined] :
     r \in RootHashes, v \in {Undefined, "iv1"}, full \in BOOLEAN}

\* What zgStorage.uploadFile returns; it never throws (part_002:281-472).
UploadFailure(msg) == [success |-> FALSE, rootHash |-> "", txHash |-> "", error |-> msg]
UploadResults(signer, root) ==
  IF signer = Undefined THEN {UploadFailure("Wallet not connected")}
  ELSE {UploadFailure("Upload error"),
        [success |-> TRUE, rootHash |-> root, txHash |-> "0xtx1", error |-> Undefined],
        [success |-> TRUE, rootHash |-> root, txHash |-> "", error |-> Undefined]}

\* ipfs-mapping.ts:359-365
CachedRecord(record, res) ==
  [record EXCEPT !.txHash = OrElse(res.txHash, record.txHash)]

Init0G ==
  /\ localStorage = <<>>
  /\ cacheMode \in {"working", "unavailable", "full"}
  /\ published = <<>>
  /\ lastOp = NoOp

\* A store that fails when the upload of the mapping file failed.
StoreMappingTo0GStrict ==
  /\ \E shareCode \in ShareCodes, record \in MappingRecords, signer \in {Undefined, "wallet"} :
       IF ~validateShareCode_0G(shareCode)
       THEN /\ lastOp' = Threw("storeMappingTo0G", shareCode, {}, "Invalid share code format")
            /\ UNCHANGED <<localStorage, published>>
       ELSE \E res \in UploadResults(signer, "0xmaproot") :
              IF ~res.success
              THEN /\ lastOp' = Threw("storeMappingTo0G", shareCode, {"zgStorage.uploadFile"}, res.error)
                   /\ UNCHANGED <<localStorage, published>>
              ELSE /\ localStorage' = saveMappingLocally(localStorage, shareCode, CachedRecord(record, res))
                   /\ published' = SetItem(published, shareCode, record)
                   /\ lastOp' = Returned("storeMappingTo0G", shareCode,
                                         {"zgStorage.uploadFile"} \cup CacheAccess("localStorage.setItem"),
                                         [rootHash |-> res.rootHash, txHash |-> res.txHash])
  /\ UNCHANGED <<pins, pinataConfigured, cacheMode, dlVars, hookVars, svcVars>>

\* ipfs-mapping.ts:341-368
StoreMappingTo0G ==
  /\ \E shareCode \in ShareCodes, record \in MappingRecords, signer \in {Undefined, "wallet"} :
       IF ~validateShareCode_0G(shareCode)
       THEN /\ lastOp' = Threw("storeMappingTo0G", shareCode, {}, "Invalid share code format")
            /\ UNCHANGED <<localStorage, published>>
       ELSE \E res \in UploadResults(signer, "0xmaproot") :
              /\ localStorage' = saveMappingLocally(localStorage, shareCode, CachedRecord(record, res))
              /\ published' = SetItem(published, shareCode, record)
              /\ lastOp' = Returned("storeMappingTo0G", shareCode,
                                    {"zgStorage.uploadFile"} \cup CacheAccess("localStorage.setItem"),
                                    [rootHash |-> res.rootHash, txHash |-> res.txHash])
  /\ UNCHANGED <<pins, pinataConfigured, cacheMode, dlVars, hookVars, svcVars>>

\* ipfs-mapping.ts:373-382. Gives the operation's record.
getMappingFrom0G(shareCode) ==
  IF ~validateShareCode_0G(shareCode)
  THEN Threw("getMappingFrom0G", shareCode, {}, "Invalid share code format")
  ELSE LET local == loadMappingLocally(localStorage, shareCode) IN
       IF local # Null
       THEN Returned("getMappingFrom0G", shareCode, CacheAccess("localStorage.getItem"), local)
       ELSE Threw("getMappingFrom0G", shareCode, CacheAccess("localStorage.getItem"),
                  "Mapping record not found.")

GetMappingFrom0G ==
  /\ \E shareCode \in ShareCodes : lastOp' = getMappingFrom0G(shareCode)
  /\ UNCHANGED <<pins, pinataConfigured, localStorage, cacheMode, published, dlVars, hookVars, svcVars>>

Next0G ==
  \/ StoreMappingTo0G
  \/ GetMappingFrom0G

\* ======================================================================
\* ZgStorageService.downloadFile (part_002:477-789)
\* ======================================================================

SEGMENT_BYTES == DEFAULT_CHUNK_SIZE * DEFAULT_SEGMENT_MAX_CHUNKS

\* Sizes around the chunk and segment boundaries, up to MaxSegments segments.
FileSizes ==
  {0, 1, DEFAULT_CHUNK_SIZE - 1, DEFAULT_CHUNK_SIZE, DEFAULT_CHUNK_SIZE + 1}
    \cup {k * SEGMENT_BYTES : k \in 1..(MaxSegments - 1)}
    \cup {k * SEGMENT_BYTES + 1 : k \in 1..(MaxSegments - 1)}

\* tx.startEntryIndex is the file's place in the storage flow: segment-aligned or not.
StartEntryIndexes == {0, DEFAULT_SEGMENT_MAX_CHUNKS - 1}

Files ==
  {[size |-> s, startEntryIndex |-> e, uploadedSegNum |-> StoredSegmentCount(s)] :
     s \in FileSizes, e \in StartEntryIndexes}

NodeModes == {"healthy", "down", "flaky"}

Located == 1..Len(locations)
AllHealthy == \A n \in Located : nodeMode[n] = "healthy"
SomeUp == \E n \in Located : nodeMode[n] # "down"
SomeFlaky == \E n \in Located : nodeMode[n] = "flaky"

\* node.getFileInfo(rootHash, true) (part_002:499, 700)
InfoAnswers(n) ==
  CASE nodeMode[n] = "healthy" -> {"final"}
    [] nodeMode[n] = "down"    -> {"throw"}
    [] OTHER                   -> {"throw", "null", "notfinal", "final"}

\* node.downloadSegmentByTxSeq(seq, startIndex, endIndex) then decodeBase64
\* (part_002:745-752): "fail" is a throw or a null answer. Every node refuses
\* a range that lies outside the file.
NodeOutcomes(n, r) ==
  IF ~ValidRange(file, r) THEN {"fail"}
  ELSE CASE nodeMode[n] = "healthy" -> {"ok"}
         [] nodeMode[n] = "down"    -> {"fail"}
         [] OTHER                   -> {"ok", "fail", "empty", "corrupt"}

\* downloader.queryFile, the finalized/tx checks and getShardConfigs
\* (part_002:558-578): all of them answered by the located nodes.
SetupAnswers ==
  IF AllHealthy THEN {"ok"}
  ELSE IF ~SomeUp THEN {"throw"}
  ELSE {"ok", "throw"}

\* downloader.downloadTask(fileInfo, 0, taskInd, numChunks, withProof)
\* (part_002:609-629): "fail" is a non-null taskError or a throw. With proof
\* the Downloader checks the segment against the root before returning it.
TaskOutcomes(t) ==
  IF ~ValidRange(file, TaskRange(file, t)) THEN {"fail"}
  ELSE IF AllHealthy THEN {"ok"}
  ELSE {"fail"}
         \cup (IF SomeUp THEN {"ok"} ELSE {})
         \cup (IF SomeFlaky THEN {"empty"} ELSE {})
         \cup (IF SomeFlaky /\ ~withProof THEN {"corrupt"} ELSE {})

\* A buffer that takes each fetched segment at its front.
PushSegmentFront(segs, r, out) ==
  CASE out = "ok"      -> <<Payload(r)>> \o segs
    [] out = "corrupt" -> <<Corrupt(r)>> \o segs
    [] OTHER           -> segs

\* if (segmentData && segmentData.length > 0) segments.push(segmentData)
\* (part_002:622-625, 754-761); a failed or empty one is skipped (continue)
PushSegment(segs, r, out) ==
  CASE out = "ok"      -> Append(segs, Payload(r))
    [] out = "corrupt" -> Append(segs, Corrupt(r))
    [] OTHER           -> segs

Success(data) == [success |-> TRUE, data |-> data, error |-> Undefined]
Failure(msg) == [success |-> FALSE, data |-> Undefined, error |-> msg]
NoResult == [success |-> FALSE, data |-> Undefined, error |-> "pending"]

Call(op, node, idx, out) == [op |-> op, node |-> node, idx |-> idx, out |-> out]

InitDownload ==
  /\ \E n \in 0..MaxNodes :
       /\ locations = [i \in 1..n |-> i]
       /\ nodeMode \in [1..n -> NodeModes]
  /\ file \in Files
  /\ withProof \in BOOLEAN
  /\ pc = "idle"
  /\ nodeIdx = 0
  /\ taskInd = 0
  /\ segments = <<>>
  /\ calls = <<>>
  /\ result = NoResult

\* return { success: false, error } from downloadFile's catch (part_002:524-529)
ReturnFailure(msg) ==
  /\ pc' = "done"
  /\ result' = Failure(msg)

\* return { success: true, data: fileData } (part_002:520-523)
ReturnSuccess(data) ==
  /\ pc' = "done"
  /\ result' = Success(data)

\* A start that goes on to the file-info queries whatever the indexer answered.
StartUnlocated ==
  /\ pc = "idle"
  /\ UNCHANGED <<mapVars, hookVars, svcVars>>
  /\ UNCHANGED <<locations, nodeMode, file, withProof, taskInd, segments, result>>
  /\ calls' = Append(calls, Call("getFileLocations", 0, 0, Len(locations)))
  /\ pc' = "info"
  /\ nodeIdx' = 1

\* downloadFile up to the first getFileInfo: initializeSDK, getFileLocations
\* (part_002:478-493)
Start ==
  /\ pc = "idle"
  /\ UNCHANGED <<mapVars, hookVars, svcVars>>
  /\ UNCHANGED <<locations, nodeMode, file, withProof, taskInd, segments>>
  /\ \E sdk \in {"loaded", "failed"} :
       IF sdk = "failed"
       THEN /\ ReturnFailure("Failed to initialize 0G Storage SDK")
            /\ calls' = calls
            /\ nodeIdx' = nodeIdx
       ELSE /\ calls' = Append(calls, Call("getFileLocations", 0, 0, Len(locations)))
            /\ IF Len(locations) = 0
               THEN /\ ReturnFailure("File not found on any storage node")
                    /\ nodeIdx' = nodeIdx
               ELSE /\ pc' = "info"
                    /\ nodeIdx' = 1
                    /\ result' = result

\* A catch that gives up instead of starting the fallback.
SkipFallback ==
  /\ ReturnFailure("No segments were successfully downloaded")
  /\ nodeIdx' = nodeIdx
  /\ taskInd' = taskInd
  /\ segments' = segments

\* The catch of downloadFileData: the fallback starts with its own
\* getFileLocations (part_002:649-694)
EnterFallback ==
  /\ pc' = "fallback_info"
  /\ nodeIdx' = 1
  /\ taskInd' = 0
  /\ segments' = <<>>
  /\ result' = result

\* After the task loop (part_002:632-647): nothing fetched throws into the
\* fallback, anything else is combined and returned.
FinishPrimary(segs) ==
  IF Len(segs) = 0
  THEN EnterFallback
  ELSE /\ ReturnSuccess(segs)
       /\ segments' = segs
       /\ nodeIdx' = nodeIdx
       /\ taskInd' = NumTasks(file)

\* A getFileInfo loop that gives up at the first node without a finalized file.
InfoQueryFirstOnly ==
  /\ pc = "info"
  /\ UNCHANGED <<mapVars, hookVars, svcVars>>
  /\ nodeIdx <= Len(locations)
  /\ UNCHANGED <<locations, nodeMode, file, withProof, taskInd, segments>>
  /\ \E ans \in InfoAnswers(locations[nodeIdx]) :
       /\ calls' = Append(calls, Call("getFileInfo", locations[nodeIdx], 0, ans))
       /\ IF ans = "final"
          THEN /\ pc' = "primary_setup"
               /\ nodeIdx' = nodeIdx
               /\ result' = result
          ELSE /\ ReturnFailure("File not found or not finalized")
               /\ nodeIdx' = nodeIdx + 1

\* One iteration of downloadFile's getFileInfo loop (part_002:497-513)
InfoQuery ==
  /\ pc = "info"
  /\ UNCHANGED <<mapVars, hookVars, svcVars>>
  /\ nodeIdx <= Len(locations)
  /\ UNCHANGED <<locations, nodeMode, file, withProof, taskInd, segments>>
  /\ \E ans \in InfoAnswers(locations[nodeIdx]) :
       /\ calls' = Append(calls, Call("getFileInfo", locations[nodeIdx], 0, ans))
       /\ IF ans = "final"
          THEN /\ pc' = "primary_setup"
               /\ nodeIdx' = nodeIdx
               /\ result' = result
          ELSE IF nodeIdx < Len(locations)
          THEN /\ pc' = "info"
               /\ nodeIdx' = nodeIdx + 1
               /\ result' = result
          ELSE /\ ReturnFailure("File not found or not finalized")
               /\ nodeIdx' = nodeIdx + 1

\* downloadFileData up to the task loop (part_002:536-603)
PrimarySetup ==
  /\ pc = "primary_setup"
  /\ UNCHANGED <<mapVars, hookVars, svcVars>>
  /\ UNCHANGED <<locations, nodeMode, file, withProof>>
  /\ \E ans \in SetupAnswers :
       /\ calls' = Append(calls, Call("queryFile", 0, 0, ans))
       /\ IF ans = "throw"
          THEN EnterFallback
          ELSE IF NumTasks(file) <= 0
          THEN FinishPrimary(<<>>)
          ELSE /\ pc' = "primary_tasks"
               /\ taskInd' = 0
               /\ segments' = <<>>
               /\ nodeIdx' = nodeIdx
               /\ result' = result

\* One iteration of the task loop, and what follows the last one
\* (part_002:605-647)
PrimaryTask ==
  /\ pc = "primary_tasks"
  /\ UNCHANGED <<mapVars, hookVars, svcVars>>
  /\ taskInd < NumTasks(file)
  /\ UNCHANGED <<locations, nodeMode, file, withProof>>
  /\ \E out \in TaskOutcomes(taskInd) :
       LET segs == PushSegment(segments, TaskRange(file, taskInd), out) IN
       /\ calls' = Append(calls, Call("downloadTask", 0, taskInd, out))
       /\ IF taskInd + 1 < NumTasks(file)
          THEN /\ pc' = "primary_tasks"
               /\ taskInd' = taskInd + 1
               /\ segments' = segs
               /\ nodeIdx' = nodeIdx
               /\ result' = result
          ELSE FinishPrimary(segs)

\* One iteration of the fallback's getFileInfo loop (part_002:696-718)
FallbackInfo ==
  /\ pc = "fallback_info"
  /\ UNCHANGED <<mapVars, hookVars, svcVars>>
  /\ nodeIdx <= Len(locations)
  /\ UNCHANGED <<locations, nodeMode, file, withProof, taskInd, segments>>
  /\ \E ans \in InfoAnswers(locations[nodeIdx]) :
       /\ calls' = Append(calls, Call("getFileInfo", locations[nodeIdx], 1, ans))
       /\ IF ans = "final"
          THEN /\ pc' = "fallback_segments"
               /\ nodeIdx' = nodeIdx
               /\ result' = result
          ELSE IF nodeIdx < Len(locations)
          THEN /\ pc' = "fallback_info"
               /\ nodeIdx' = nodeIdx + 1
               /\ result' = result
          ELSE /\ ReturnFailure("File not found or not finalized")
               /\ nodeIdx' = nodeIdx + 1

\* A fallback that combines and returns whatever it fetched, nothing included.
FinishFallbackUnchecked(segs) == ReturnSuccess(segs)

\* After the fallback's segment loop (part_002:769-788)
FinishFallback(segs) ==
  IF Len(segs) = 0
  THEN ReturnFailure("No segments were successfully downloaded")
  ELSE ReturnSuccess(segs)

\* One iteration of the fallback's segment loop, always against
\* storageNodes[0], and what follows the last one (part_002:727-784)
FallbackSegment ==
  /\ pc = "fallback_segments"
  /\ UNCHANGED <<mapVars, hookVars, svcVars>>
  /\ taskInd < NumSegments(file)
  /\ UNCHANGED <<locations, nodeMode, file, withProof, nodeIdx>>
  /\ LET node == locations[1]
         r == FallbackRange(file, taskInd) IN
     \E out \in NodeOutcomes(node, r) :
       LET segs == PushSegment(segments, r, out) IN
       /\ calls' = Append(calls, Call("downloadSegmentByTxSeq", node, taskInd, out))
       /\ segments' = segs
       /\ taskInd' = taskInd + 1
       /\ IF taskInd + 1 < NumSegments(file)
          THEN /\ pc' = "fallback_segments"
               /\ result' = result
          ELSE FinishFallback(segs)

NextDownload ==
  \/ Start
  \/ InfoQuery
  \/ PrimarySetup
  \/ PrimaryTask
  \/ FallbackInfo
  \/ FallbackSegment

\* ======================================================================
\* useFileUpload (hooks/useFilePreview.ts:107-328)
\* ======================================================================

\* config (useFilePreview.ts:334-356)
maxFileSize == 256 * 1024 * 1024
enableProofVerification == TRUE

\* The root hash under which the storage network holds `file`.
FileRoot == "0xroot1"

\* UploadOptions (useFilePreview.ts:98-102): file, isEncrypted, customKey
UploadFiles ==
  {[name |-> "a.txt", size |-> DEFAULT_CHUNK_SIZE + 1, type |-> "text/plain"],
   [name |-> "big.bin", size |-> maxFileSize + 1, type |-> "application/octet-stream"]}
UploadOptions ==
  {[file |-> f, isEncrypted |-> e, customKey |-> k] :
     f \in UploadFiles, e \in BOOLEAN, k \in {Undefined, "key1"}}

\* Codes generateRandomShareCode mints (ipfs-mapping.ts:212-233): sixteen
\* characters of [a-z0-9] in four groups behind the prefix.
GeneratedShareCodes == {c \in ShareCodes : validateShareCode(c)}

UploadIdle ==
  [pc |-> "idle", mutation |-> "idle", status |-> "", progress |-> 0,
   uploadedInfo |-> Null, options |-> Null, address |-> Undefined,
   signer |-> Undefined, encryptionKey |-> Undefined, iv |-> Undefined,
   uploadResult |-> Null, shareCode |-> <<>>, error |-> Undefined,
   observed |-> TRUE]

\* onError (useFilePreview.ts:267-292). The hook sees the mutation's state
\* unless mutation.reset() detached it from the running mutation.
UploadOnError(msg) ==
  up' = [UploadIdle EXCEPT !.mutation = IF up.observed THEN "error" ELSE up.mutation,
                           !.error = IF up.observed THEN msg ELSE up.error,
                           !.status = "Upload Failed", !.progress = 0,
                           !.uploadedInfo = Null]

\* mutationFn up to the first await (useFilePreview.ts:118-172)
UploadMutate ==
  /\ up.pc = "idle"
  /\ dl.runs = 0
  /\ Len(pins) < MaxUploads
  /\ \E options \in UploadOptions, zg \in BOOLEAN, address \in {wallet.address},
        isConnected \in BOOLEAN, signer \in {Undefined, "wallet"} :
       IF ~zg THEN UploadOnError("0G Storage not available")
       ELSE IF Falsy(address) THEN UploadOnError("Wallet not connected")
       ELSE IF ~isConnected THEN UploadOnError("0G Storage connection failed")
       ELSE IF options.file.size > maxFileSize THEN UploadOnError("File too large")
       ELSE up' = [UploadIdle EXCEPT
                     !.pc = "preparing", !.mutation = "pending",
                     !.status = IF options.isEncrypted THEN "Encrypting file..."
                                ELSE "Preparing file for upload...",
                     !.options = options, !.address = address, !.signer = signer,
                     !.encryptionKey =
                        IF ~options.isEncrypted THEN Undefined
                        ELSE IF ~Falsy(options.customKey) THEN options.customKey
                        ELSE "generated-key"]
  /\ UNCHANGED <<dlVars, mapVars, dl, uploaded, svcVars>>

\* encryptFile / file.arrayBuffer resolved (useFilePreview.ts:155-180)
UploadPrepared ==
  /\ up.pc = "preparing"
  /\ up' = [up EXCEPT !.pc = "network",
                      !.iv = IF up.options.isEncrypted THEN "iv1" ELSE Undefined,
                      !.status = "Checking 0G Storage network status...",
                      !.progress = 20]
  /\ UNCHANGED <<dlVars, mapVars, dl, uploaded, svcVars>>

\* getNetworkStatus resolved, the signer check (useFilePreview.ts:182-199)
UploadNetworkStatus ==
  /\ up.pc = "network"
  /\ \E rpc \in BOOLEAN, indexer \in BOOLEAN :
       IF ~rpc \/ ~indexer THEN UploadOnError("0G Storage network error")
       ELSE IF Falsy(up.signer) THEN UploadOnError("Wallet not connected")
       ELSE up' = [up EXCEPT !.pc = "uploading",
                             !.status = "Submitting transaction to blockchain...",
                             !.progress = 40]
  /\ UNCHANGED <<dlVars, mapVars, dl, uploaded, svcVars>>

\* An upload step that goes on to the share code whatever uploadFile returned.
UploadFileUnchecked ==
  /\ up.pc = "uploading"
  /\ \E root \in RootHashes :
       \E uploadResult \in UploadResults(up.signer, root), shareCode \in GeneratedShareCodes :
         up' = [up EXCEPT !.pc = "storing", !.progress = 70,
                          !.uploadResult = uploadResult, !.shareCode = shareCode]
  /\ UNCHANGED <<dlVars, mapVars, dl, uploaded, svcVars>>

\* zgStorage.uploadFile resolved, the share code minted (useFilePreview.ts:201-214)
UploadFile ==
  /\ up.pc = "uploading"
  /\ \E root \in RootHashes :
       \E uploadResult \in UploadResults(up.signer, root), shareCode \in GeneratedShareCodes :
         IF ~uploadResult.success THEN UploadOnError("Upload failed")
         ELSE up' = [up EXCEPT !.pc = "storing",
                               !.status = "File uploaded successfully! Generating share code...",
                               !.progress = 70,
                               !.uploadResult = uploadResult,
                               !.shareCode = shareCode]
  /\ UNCHANGED <<dlVars, mapVars, dl, uploaded, svcVars>>

\* The metadata handed to storeMappingToIPFS (useFilePreview.ts:226-237)
UploadMetadata(u) ==
  [fileName |-> u.options.file.name,
   fileSize |-> ToString(u.options.file.size),
   mimeType |-> u.options.file.type,
   isEncrypted |-> Bool(u.options.isEncrypted),
   encryptionKey |-> u.encryptionKey,
   iv |-> u.iv,
   uploader |-> u.address,
   uploadTime |-> "1700",
   txHash |-> u.uploadResult.txHash]

\* setUploadedInfo (useFilePreview.ts:253-261)
UploadedInfo(u) ==
  [fileName |-> u.options.file.name,
   fileSize |-> ToString(u.options.file.size),
   rootHash |-> u.uploadResult.rootHash,
   txHash |-> u.uploadResult.txHash,
   shareCode |-> u.shareCode,
   encryptionKey |-> u.encryptionKey,
   isEncrypted |-> Bool(u.options.isEncrypted)]

\* storeMappingToIPFS settled, then setUploadedInfo and onSuccess
\* (useFilePreview.ts:226-266)
UploadStoreMapping ==
  /\ up.pc = "storing"
  /\ \E answer \in PinataAnswers :
       LET r == storeMappingToIPFS(up.shareCode, up.uploadResult.rootHash,
                                   UploadMetadata(up), answer) IN
       /\ pins' = r.pins
       /\ IF r.op.outcome = "threw"
          THEN /\ UploadOnError(r.op.error)
               /\ uploaded' = uploaded
          ELSE /\ up' = [UploadIdle EXCEPT
                           !.mutation = IF up.observed THEN "success" ELSE up.mutation,
                           !.status = "File successfully stored on 0G Storage!",
                           !.progress = 100,
                           !.uploadedInfo = UploadedInfo(up)]
               /\ uploaded' = SetItem(uploaded, up.shareCode, up.uploadResult.rootHash)
  /\ UNCHANGED <<dlVars, pinataConfigured, localStorage, cacheMode, published, lastOp, dl, svcVars>>

\* The addresses useAccount reports: none, or one of two accounts.
WalletAddresses == {Undefined, "0xabc", "0xdef"}

\* The hook after its wallet effect has run for address a
\* (useFilePreview.ts:111, 311): timer is the pending setTimeout.
WalletOf(a) == [address |-> a, lastAddress |-> a, timer |-> FALSE]

\* What the wallet effect does to the hook's state when the address changed
\* (useFilePreview.ts:297-305)
WalletReset ==
  [up EXCEPT !.status = "Wallet changed, resetting upload state...",
             !.progress = 0,
             !.uploadedInfo = Null,
             !.mutation = "idle",
             !.error = Undefined,
             !.observed = (up.pc = "idle")]

\* useAccount reports another address and the effect runs (useFilePreview.ts:295-312)
WalletChange ==
  /\ \E a \in WalletAddresses \ {wallet.address} :
       IF ~Falsy(wallet.lastAddress) /\ wallet.lastAddress # a
       THEN /\ up' = WalletReset
            /\ wallet' = [address |-> a, lastAddress |-> a, timer |-> TRUE]
       ELSE /\ up' = up
            /\ wallet' = [wallet EXCEPT !.address = a, !.lastAddress = a]
  /\ UNCHANGED <<dlVars, mapVars, dl, uploaded, svc, provider>>

\* The effect's setTimeout fires (useFilePreview.ts:307-309)
WalletStatusCleared ==
  /\ wallet.timer
  /\ wallet' = [wallet EXCEPT !.timer = FALSE]
  /\ up' = [up EXCEPT !.status = ""]
  /\ UNCHANGED <<dlVars, mapVars, dl, uploaded, svc, provider>>

NextWallet ==
  \/ UploadMutate
  \/ UploadPrepared
  \/ UploadNetworkStatus
  \/ UploadFile
  \/ UploadStoreMapping
  \/ WalletChange
  \/ WalletStatusCleared

\* ======================================================================
\* useFileDownload (hooks/useFileDownload.ts:29-233, part_004:55-285)
\* ======================================================================

DownloadIdle ==
  [pc |-> "idle", mutation |-> "idle", status |-> "", progress |-> 0,
   downloadInfo |-> Null, variant |-> "none", shareCode |-> <<>>,
   encryptionKey |-> Undefined, fileMetadata |-> Null, uploadedRoot |-> Undefined,
   events |-> <<>>, data |-> Null, error |-> Undefined, runs |-> 0]

\* An onError that leaves the progress and the download info as they were.
DownloadOnErrorKeep(d, msg) ==
  dl' = [d EXCEPT !.pc = "idle", !.mutation = "error", !.error = msg,
                  !.status = "Download Failed"]

\* onError (useFileDownload.ts:192-216): what the mutation was given and had
\* resolved stays visible on the settled mutation.
DownloadOnError(d, msg) ==
  dl' = [d EXCEPT !.pc = "idle", !.mutation = "error", !.error = msg,
                  !.status = IF msg = "Invalid share code format" THEN "Invalid Share Code"
                             ELSE IF msg = "No file found with this share code" THEN "File Not Found"
                             ELSE IF msg = "This file is encrypted. Please provide the decryption key."
                                  THEN "Decryption Key Required"
                             ELSE IF msg = "0G Storage not available" THEN "0G Storage Not Available"
                             ELSE "Download Failed",
                  !.progress = 0, !.downloadInfo = Null]

\* The mutation as it starts (useFileDownload.ts:37-41)
DownloadStarted(variant, shareCode, encryptionKey) ==
  [DownloadIdle EXCEPT !.mutation = "pending", !.variant = variant,
                       !.shareCode = shareCode, !.encryptionKey = encryptionKey,
                       !.uploadedRoot = IF shareCode \in DOMAIN uploaded
                                        THEN uploaded[shareCode] ELSE Undefined,
                       !.status = "Validating share code...",
                       !.runs = dl.runs + 1]

\* useFileDownload.ts:53-71
FileMetadata0G(shareCode, mapping, encryptionKey) ==
  [id |-> shareCode,
   shareCode |-> shareCode,
   pieceCid |-> Get(mapping, "rootHash"),
   fileName |-> OrElse(Get(mapping, "fileName"), "unknown"),
   fileSize |-> OrElse(Get(mapping, "fileSize"), "0"),
   mimeType |-> OrElse(Get(mapping, "mimeType"), "application/octet-stream"),
   isEncrypted |-> Bool(~Falsy(Get(mapping, "iv"))),
   encryptionKey |-> encryptionKey,
   iv |-> Get(mapping, "iv"),
   uploader |-> OrElse(Get(mapping, "uploader"), "unknown"),
   rootHash |-> Get(mapping, "rootHash")]

\* part_004:107-123 (a pinned document has no nested metadata object)
FileMetadataIPFS(mappingData) ==
  [id |-> Get(mappingData, "shareCode"),
   shareCode |-> Get(mappingData, "shareCode"),
   pieceCid |-> OrElse(Get(mappingData, "rootHash"), Get(mappingData, "pieceCid")),
   fileName |-> OrElse(Get(mappingData, "fileName"), "unknown"),
   fileSize |-> OrElse(Get(mappingData, "fileSize"), "0"),
   mimeType |-> OrElse(Get(mappingData, "mimeType"), "application/octet-stream"),
   isEncrypted |-> OrElse(Get(mappingData, "isEncrypted"), "false"),
   encryptionKey |-> Get(mappingData, "encryptionKey"),
   iv |-> Get(mappingData, "iv"),
   uploader |-> OrElse(Get(mappingData, "uploader"), "unknown"),
   rootHash |-> Get(mappingData, "rootHash")]

\* setDownloadInfo (useFileDownload.ts:77-86)
DownloadInfo(fm) ==
  [fileName |-> fm.fileName, fileSize |-> fm.fileSize, mimeType |-> fm.mimeType,
   isEncrypted |-> fm.isEncrypted, encryptionKey |-> fm.encryptionKey,
   iv |-> fm.iv, uploader |-> fm.uploader]

\* zgStorage.downloadFile(fileMetadata.pieceCid, config.enableProofVerification)
\* is entered (useFileDownload.ts:113-116). The indexer knows no location for
\* a root hash other than the stored file's.
CallDownloadFile(rootHash) ==
  /\ withProof' = enableProofVerification
  /\ nodeIdx' = 0
  /\ taskInd' = 0
  /\ segments' = <<>>
  /\ IF rootHash = FileRoot
     THEN /\ pc' = "idle"
          /\ calls' = <<>>
          /\ result' = NoResult
     ELSE /\ pc' = "done"
          /\ calls' = <<Call("getFileLocations", 0, 0, 0)>>
          /\ result' = Failure("File not found on any storage node")
  /\ UNCHANGED <<locations, nodeMode, file>>

\* From the resolved metadata to the downloadFile call (useFileDownload.ts:73-116)
DownloadResolved(d, fm, zg, isConnected) ==
  LET r == [d EXCEPT !.fileMetadata = fm, !.events = Append(d.events, "resolved")] IN
  IF fm.isEncrypted = "true" /\ Falsy(d.encryptionKey)
  THEN /\ DownloadOnError(r, "This file is encrypted. Please provide the decryption key.")
       /\ UNCHANGED dlVars
  ELSE IF ~zg
  THEN /\ DownloadOnError(r, "0G Storage not available")
       /\ UNCHANGED dlVars
  ELSE IF ~isConnected
  THEN /\ DownloadOnError(r, "0G Storage connection failed")
       /\ UNCHANGED dlVars
  ELSE /\ dl' = [r EXCEPT !.pc = "downloading",
                          !.status = "Downloading file from 0G Storage...",
                          !.progress = 40,
                          !.downloadInfo = DownloadInfo(fm),
                          !.events = Append(r.events, "downloadFile")]
       /\ CallDownloadFile(fm.pieceCid)

\* mutationFn of hooks/useFileDownload.ts up to the downloadFile call (37-116)
DownloadMutate0G ==
  /\ dl.pc = "idle"
  /\ dl.runs < MaxDownloads
  /\ up.pc = "idle"
  /\ \E shareCode \in ShareCodes, encryptionKey \in {Undefined, "key1"},
        zg \in BOOLEAN, isConnected \in BOOLEAN :
       LET d == DownloadStarted("0g", shareCode, encryptionKey) IN
       IF ~validateShareCode_0G(shareCode)
       THEN /\ DownloadOnError(d, "Invalid share code format")
            /\ UNCHANGED dlVars
       ELSE LET m == getMappingFrom0G(shareCode) IN
            IF m.outcome = "threw"
            THEN /\ DownloadOnError(d, m.error)
                 /\ UNCHANGED dlVars
            ELSE DownloadResolved(d, FileMetadata0G(shareCode, m.value, encryptionKey),
                                  zg, isConnected)
  /\ UNCHANGED <<mapVars, up, uploaded, svcVars>>

\* mutationFn of the Pinata variant up to the downloadFile call (part_004:63-177)
DownloadMutateIPFS ==
  /\ dl.pc = "idle"
  /\ dl.runs < MaxDownloads
  /\ up.pc = "idle"
  /\ \E shareCode \in ShareCodes, encryptionKey \in {Undefined, "key1"},
        zg \in BOOLEAN, isConnected \in BOOLEAN,
        search \in PinataAnswers, gateway \in PinataAnswers :
       \E row \in FirstRows(shareCode) :
         LET d == DownloadStarted("ipfs", shareCode, encryptionKey) IN
         IF ~validateShareCode(shareCode)
         THEN /\ DownloadOnError(d, "Invalid share code format")
              /\ UNCHANGED dlVars
         ELSE IF ~pinataConfigured
         THEN /\ DownloadOnError(d, "Pinata configuration missing")
              /\ UNCHANGED dlVars
         ELSE IF search # "ok"
         THEN /\ DownloadOnError(d, "Failed to search metadata")
              /\ UNCHANGED dlVars
         ELSE IF row = 0
         THEN /\ DownloadOnError(d, "No file found with this share code")
              /\ UNCHANGED dlVars
         ELSE IF gateway # "ok"
         THEN /\ DownloadOnError(d, "Failed to retrieve metadata from IPFS")
              /\ UNCHANGED dlVars
         ELSE DownloadResolved(d, FileMetadataIPFS(JSONParse(pins[row].pinataContent)),
                               zg, isConnected)
  /\ UNCHANGED <<mapVars, up, uploaded, svcVars>>

\* The link click and onSuccess (useFileDownload.ts:162-191)
DownloadSave(d, finalData) ==
  dl' = [d EXCEPT !.pc = "idle", !.mutation = "success",
                  !.status = "File downloaded successfully!", !.progress = 100,
                  !.data = finalData, !.events = Append(d.events, "save")]

\* A hook that calls the cipher without looking for the IV.
DownloadReceiveAnyIv ==
  /\ dl.pc = "downloading"
  /\ pc = "done"
  /\ IF ~result.success
     THEN DownloadOnError(dl, "Download failed")
     ELSE IF dl.fileMetadata.isEncrypted = "true" /\ ~Falsy(dl.encryptionKey)
     THEN dl' = [dl EXCEPT !.pc = "decrypting", !.status = "Decrypting file...",
                           !.progress = 80,
                           !.events = Append(dl.events, "decryptFileFromBlob")]
     ELSE DownloadSave(dl, [bytes |-> result.data, decrypted |-> FALSE])
  /\ UNCHANGED <<dlVars, mapVars, up, uploaded, svcVars>>

\* downloadFile resolved, up to the decryptFileFromBlob call (useFileDownload.ts:118-152)
DownloadReceive ==
  /\ dl.pc = "downloading"
  /\ pc = "done"
  /\ IF ~result.success
     THEN DownloadOnError(dl, "Download failed")
     ELSE IF dl.fileMetadata.isEncrypted = "true" /\ ~Falsy(dl.encryptionKey)
     THEN IF Falsy(dl.fileMetadata.iv)
          THEN DownloadOnError(dl, "Decryption failed: No IV available for decryption")
          ELSE dl' = [dl EXCEPT !.pc = "decrypting", !.status = "Decrypting file...",
                                !.progress = 80,
                                !.events = Append(dl.events, "decryptFileFromBlob")]
     ELSE DownloadSave(dl, [bytes |-> result.data, decrypted |-> FALSE])
  /\ UNCHANGED <<dlVars, mapVars, up, uploaded, svcVars>>

\* decryptFileFromBlob settled (useFileDownload.ts:152-160)
DownloadDecrypt ==
  /\ dl.pc = "decrypting"
  /\ \E cipher \in {"ok", "throw"} :
       IF cipher = "throw"
       THEN DownloadOnError(dl, "Decryption failed")
       ELSE DownloadSave(dl, [bytes |-> result.data, decrypted |-> TRUE])
  /\ UNCHANGED <<dlVars, mapVars, up, uploaded, svcVars>>

NextHooks ==
  \/ UploadMutate
  \/ UploadPrepared
  \/ UploadNetworkStatus
  \/ UploadFile
  \/ UploadStoreMapping
  \/ DownloadMutate0G
  \/ DownloadMutateIPFS
  \/ Start
  \/ InfoQuery
  \/ PrimarySetup
  \/ PrimaryTask
  \/ FallbackInfo
  \/ FallbackSegment
  \/ DownloadReceive
  \/ DownloadDecrypt

\* ======================================================================
\* Share-code functions called on their own (lib/ipfs-mapping.ts)
\* ======================================================================

\* Strings one edit away from a well-formed code: a character replaced,
\* removed or inserted at any place.
EditChars == {"A", "-", "a", "7", "_", " ", "\n"}
ReplaceAt(s, i, c) == [s EXCEPT ![i] = c]
DeleteAt(s, i) == SubSeq(s, 1, i - 1) \o SubSeq(s, i + 1, Len(s))
InsertAt(s, i, c) == SubSeq(s, 1, i) \o <<c>> \o SubSeq(s, i + 1, Len(s))

\* The strings handed to validateShareCode
CodeInputs ==
  ShareCodes
    \cup {<<>>, SubSeq(CodeA, Len(SHARE_CODE_PREFIX) + 1, Len(CodeA)),
          CodeA \o <<"-","a","b","c","d">>, SHARE_CODE_PREFIX, CodeA \o CodeA}
    \cup {ReplaceAt(CodeA, i, c) : i \in 1..Len(CodeA), c \in EditChars}
    \cup {DeleteAt(CodeA, i) : i \in 1..Len(CodeA)}
    \cup {InsertAt(CodeA, i, c) : i \in 0..Len(CodeA), c \in EditChars}

\* Both validateShareCode implementations on one string
ValidateShareCode ==
  /\ \E code \in CodeInputs :
       lastOp' = Returned("validateShareCode", code, {},
                          [first |-> Bool(validateShareCode(code)),
                           second |-> Bool(validateShareCode_0G(code))])
  /\ UNCHANGED <<pins, pinataConfigured, localStorage, cacheMode, published, dlVars, hookVars, svcVars>>

\* Outcomes of the random source: per group one of a few index patterns,
\* the ends of the letter and digit ranges included.
GroupDraws == {<<0, 0, 0, 0>>, <<25, 26, 35, 0>>, <<35, 35, 35, 35>>, <<1, 27, 12, 30>>}
RandomDraws ==
  {a \o b \o c \o e : a \in GroupDraws, b \in GroupDraws, c \in GroupDraws, e \in GroupDraws}

\* extractCodeFromShareCode of the 0G helpers as a value: it throws on a
\* malformed code (ipfs-mapping.ts:295-298)
Extracted(code) ==
  IF validateShareCode_0G(code) THEN ReplaceFirst(code, SHARE_CODE_PREFIX) ELSE <<"threw">>

\* generateRandomShareCode, then validateShareCode and extractCodeFromShareCode of it
GenerateRandomShareCode ==
  /\ \E draws \in RandomDraws :
       LET code == generateRandomShareCode(draws) IN
       lastOp' = Returned("generateRandomShareCode", code, {},
                          [valid |-> Bool(validateShareCode(code)),
                           body |-> extractCodeFromShareCode(code)])
  /\ UNCHANGED <<pins, pinataConfigured, localStorage, cacheMode, published, dlVars, hookVars, svcVars>>

\* generateShareCode, then validateShareCode and extractCodeFromShareCode of it
GenerateShareCode ==
  /\ \E draws \in RandomDraws :
       LET code == generateShareCode(draws) IN
       lastOp' = Returned("generateShareCode", code, {},
                          [valid |-> Bool(validateShareCode_0G(code)),
                           body |-> Extracted(code)])
  /\ UNCHANGED <<pins, pinataConfigured, localStorage, cacheMode, published, dlVars, hookVars, svcVars>>

NextCodes ==
  \/ ValidateShareCode
  \/ GenerateRandomShareCode
  \/ GenerateShareCode

\* ======================================================================
\* ZgStorageService.initializeSDK and ZgStorageProvider
\* (part_002:214-276, 828-848; providers/ZgStorageProvider.tsx)
\* ======================================================================

MaxCallers == 2

\* Caller 0 is the provider's getNetworkStatus; the others call the instance
\* on their own.
Callers == 0..MaxCallers
ServiceOps == {"uploadFile", "downloadFile", "getNetworkStatus"}

\* What a call has seen of the chain and of indexer.upload before it ended.
Unseen == [chainId |-> 0, uploadErr |-> "unreached"]

CallerIdle == [op |-> "none", pc |-> "idle", out |-> "none", res |-> NoResult, seen |-> Unseen]
Calling(op, at) == [CallerIdle EXCEPT !.op = op, !.pc = at]

\* A page without the SDK script and an instance whose indexer is null (0).
SdkIdle ==
  [indexer |-> 0, created |-> 0, scripts |-> 0, zgstorage |-> FALSE,
   callers |-> [p \in Callers |-> CallerIdle]]

\* useState initial values (ZgStorageProvider.tsx:21-23)
ProviderUnmounted ==
  [pc |-> "unmounted", zgStorage |-> "null", isConnected |-> FALSE, error |-> Undefined]

SetCaller(p, c) == [svc.callers EXCEPT ![p] = c]

\* What a call answers when initializeSDK or what follows it throws:
\* uploadFile and downloadFile catch and return a failure, getNetworkStatus
\* rethrows (part_002:463-471, 524-529, 844-847).
FailedOut(op) == IF op = "getNetworkStatus" THEN "threw" ELSE "failure"
CompletedOut(op) == IF op = "getNetworkStatus" THEN "returned" ELSE "success"

\* The result the catch of uploadFile or downloadFile builds from a thrown
\* error's message (part_002:463-471, 524-529); getNetworkStatus has none.
Caught(op, msg) ==
  IF op = "uploadFile" THEN UploadFailure(msg)
  ELSE IF op = "downloadFile" THEN Failure(msg)
  ELSE NoResult

\* error instanceof Error ? error.message : 'Unknown error', for what the
\* wallet, the RPC endpoint or the SDK throws
MessageOf(thrown) == IF thrown = "error" THEN "rpc unreachable" ELSE "Unknown error"

expectedChainId == 16602

\* What the wallet, the chain and the SDK answer to one uploadFile call
UploadEnvs ==
  [getAddress : {"ok", "throws"}, thrown : {"error", "value"},
   treeErr : {"null", "tree error"}, treeRoot : {Undefined, "0xroot"},
   chainId : {expectedChainId, 1}, validation : {"ok", "throws"},
   upload : {"null", "upload error", "throws"},
   rootHash : {Undefined, "0xroot2"}, txHash : {Undefined, "0xtx1"}]

\* An upload that does not look at the chain id.
uploadFileAnyChain(env) ==
  IF env.getAddress = "throws"
  THEN [res |-> UploadFailure(MessageOf(env.thrown)), seen |-> Unseen]
  ELSE IF env.treeErr # "null"
  THEN [res |-> UploadFailure("Error generating Merkle tree"), seen |-> Unseen]
  ELSE IF env.validation = "throws"
  THEN [res |-> UploadFailure("Network validation failed"),
        seen |-> [Unseen EXCEPT !.chainId = env.chainId]]
  ELSE IF env.upload = "throws"
  THEN [res |-> UploadFailure(MessageOf(env.thrown)),
        seen |-> [Unseen EXCEPT !.chainId = env.chainId]]
  ELSE IF env.upload # "null"
  THEN [res |-> UploadFailure("Upload error"),
        seen |-> [chainId |-> env.chainId, uploadErr |-> env.upload]]
  ELSE [res |-> [success |-> TRUE,
                 rootHash |-> OrElse(env.rootHash, OrElse(env.treeRoot, "")),
                 txHash |-> OrElse(env.txHash, ""),
                 error |-> Undefined],
        seen |-> [chainId |-> env.chainId, uploadErr |-> env.upload]]

\* uploadFile after its first initializeSDK (part_002:292-471)
uploadFile(env) ==
  IF env.getAddress = "throws"
  THEN [res |-> UploadFailure(MessageOf(env.thrown)), seen |-> Unseen]
  ELSE IF env.treeErr # "null"
  THEN [res |-> UploadFailure("Error generating Merkle tree"), seen |-> Unseen]
  ELSE IF env.chainId # expectedChainId
  THEN [res |-> UploadFailure("Wrong network"),
        seen |-> [Unseen EXCEPT !.chainId = env.chainId]]
  ELSE IF env.validation = "throws"
  THEN [res |-> UploadFailure("Network validation failed"),
        seen |-> [Unseen EXCEPT !.chainId = env.chainId]]
  ELSE IF env.upload = "throws"
  THEN [res |-> UploadFailure(MessageOf(env.thrown)),
        seen |-> [Unseen EXCEPT !.chainId = env.chainId]]
  ELSE IF env.upload # "null"
  THEN [res |-> UploadFailure("Upload error"),
        seen |-> [chainId |-> env.chainId, uploadErr |-> env.upload]]
  ELSE [res |-> [success |-> TRUE,
                 rootHash |-> OrElse(env.rootHash, OrElse(env.treeRoot, "")),
                 txHash |-> OrElse(env.txHash, ""),
                 error |-> Undefined],
        seen |-> [chainId |-> env.chainId, uploadErr |-> env.upload]]

\* What the indexer, the nodes and downloadFileData answer to one
\* downloadFile call; downloadFileData throws when both of its paths fail
DownloadEnvs ==
  [locations : {"throws", "none", "some"}, thrown : {"error", "value"},
   info : {"none", "finalized"},
   data : {"bytes", "No segments were successfully downloaded",
           "File not found or not finalized"}]

\* downloadFile after initializeSDK (part_002:484-530)
downloadFile(env) ==
  [res |-> IF env.locations = "throws" THEN Failure(MessageOf(env.thrown))
           ELSE IF env.locations = "none" THEN Failure("File not found on any storage node")
           ELSE IF env.info = "none" THEN Failure("File not found or not finalized")
           ELSE IF env.data # "bytes" THEN Failure(env.data)
           ELSE Success(env.data),
   seen |-> Unseen]

\* getNetworkStatus after initializeSDK: indexer.getShardedNodes
\* (part_002:837-847)
StatusEnvs == [nodes : {"answered", "throws"}]

EnvsOf(op) ==
  IF op = "uploadFile" THEN UploadEnvs
  ELSE IF op = "downloadFile" THEN DownloadEnvs
  ELSE StatusEnvs

\* The call's answer from what it met after initializeSDK
Finished(c, env) ==
  IF c.op = "getNetworkStatus"
  THEN [c EXCEPT !.pc = "done",
                 !.out = IF env.nodes = "answered" THEN "returned" ELSE "threw"]
  ELSE LET r == IF c.op = "uploadFile" THEN uploadFile(env) ELSE downloadFile(env) IN
       [c EXCEPT !.pc = "done",
                 !.out = IF r.res.success THEN CompletedOut(c.op) ELSE FailedOut(c.op),
                 !.res = r.res,
                 !.seen = r.seen]

\* initializeSDK up to its first suspension, entered by caller p running op
\* (part_002:255-266, 214-252): nothing to do with an indexer; with
\* window.zgstorage defined the load promise is resolved at once; otherwise a
\* script element is appended to the document.
EnterInitializeSDK(p, op) ==
  IF svc.indexer # 0
  THEN [svc EXCEPT !.callers = SetCaller(p, Calling(op, "using"))]
  ELSE IF svc.zgstorage
  THEN [svc EXCEPT !.callers = SetCaller(p, Calling(op, "resume"))]
  ELSE [svc EXCEPT !.scripts = svc.scripts + 1,
                   !.callers = SetCaller(p, Calling(op, "waiting"))]

\* uploadFile, downloadFile or getNetworkStatus is called on the instance
\* (part_002:281-290, 477-482, 828-832)
CallService ==
  /\ \E p \in 1..MaxCallers, op \in ServiceOps, signer \in {Undefined, "wallet"} :
       /\ svc.callers[p].pc = "idle"
       /\ svc' = IF op = "getNetworkStatus"
                  THEN [svc EXCEPT !.callers = SetCaller(p, Calling(op, "rpc"))]
                  ELSE IF op = "uploadFile" /\ Falsy(signer)
                  THEN [svc EXCEPT !.callers =
                          SetCaller(p, [Calling(op, "done") EXCEPT
                                          !.out = FailedOut(op),
                                          !.res = Caught(op, "Wallet not connected")])]
                  ELSE EnterInitializeSDK(p, op)
  /\ UNCHANGED <<dlVars, mapVars, hookVars, wallet, provider>>

\* provider.getBlockNumber() settled (part_002:831-836)
RpcSettled ==
  /\ \E p \in Callers, ok \in BOOLEAN :
       /\ svc.callers[p].pc = "rpc"
       /\ svc' = IF ok THEN EnterInitializeSDK(p, "getNetworkStatus")
                  ELSE [svc EXCEPT !.callers =
                          SetCaller(p, [Calling("getNetworkStatus", "done") EXCEPT !.out = "threw"])]
  /\ UNCHANGED <<dlVars, mapVars, hookVars, wallet, provider>>

\* script.onload or script.onerror of the element a caller appended
\* (part_002:229-250)
ScriptSettled ==
  /\ \E p \in Callers, ev \in {"load", "loadWithoutGlobal", "error"} :
       LET c == svc.callers[p] IN
       /\ c.pc = "waiting"
       /\ ev = "loadWithoutGlobal" => ~svc.zgstorage
       /\ svc' = IF ev = "load"
                  THEN [svc EXCEPT !.zgstorage = TRUE,
                                   !.callers = SetCaller(p, [c EXCEPT !.pc = "resume"])]
                  ELSE [svc EXCEPT !.callers =
                          SetCaller(p, [c EXCEPT !.pc = "done", !.out = FailedOut(c.op),
                                                 !.res = Caught(c.op, "Failed to initialize 0G Storage SDK")])]
  /\ UNCHANGED <<dlVars, mapVars, hookVars, wallet, provider>>

\* this.indexer = new window.zgstorage.Indexer(...) (part_002:268-270)
CreateIndexer ==
  /\ \E p \in Callers :
       LET c == svc.callers[p] IN
       /\ c.pc = "resume"
       /\ svc' = [svc EXCEPT !.indexer = svc.created + 1,
                             !.created = svc.created + 1,
                             !.callers = SetCaller(p, [c EXCEPT !.pc = "using"])]
  /\ UNCHANGED <<dlVars, mapVars, hookVars, wallet, provider>>

\* The rest of the call after initializeSDK returned
FinishCall ==
  /\ \E p \in Callers :
       LET c == svc.callers[p] IN
       /\ c.pc = "using"
       /\ \E env \in EnvsOf(c.op) :
            svc' = [svc EXCEPT !.callers = SetCaller(p, Finished(c, env))]
  /\ UNCHANGED <<dlVars, mapVars, hookVars, wallet, provider>>

\* The only value getNetworkStatus returns (part_002:840-843)
NetworkStatus == [rpc |-> TRUE, indexer |-> TRUE]

\* useEffect(() => initializeZgStorage(), []) up to the await
\* (ZgStorageProvider.tsx:25-38, 51-53)
ProviderMount ==
  /\ provider.pc = "unmounted"
  /\ svc.callers[0].pc = "idle"
  /\ provider' = [provider EXCEPT !.pc = "checking", !.error = Undefined,
                                  !.zgStorage = "service"]
  /\ svc' = [svc EXCEPT !.callers =
               SetCaller(0, Calling("getNetworkStatus", "rpc"))]
  /\ UNCHANGED <<dlVars, mapVars, hookVars, wallet>>

\* A provider that reports the connection whatever the status check did.
ProviderSettledOptimistic ==
  /\ provider.pc = "checking"
  /\ svc.callers[0].pc = "done"
  /\ provider' = [provider EXCEPT !.pc = "settled", !.isConnected = TRUE,
                                  !.error = IF svc.callers[0].out = "threw"
                                            THEN "Failed to initialize 0G Storage SDK"
                                            ELSE provider.error]
  /\ UNCHANGED <<dlVars, mapVars, hookVars, wallet, svc>>

\* getNetworkStatus settled (ZgStorageProvider.tsx:38-50)
ProviderSettled ==
  /\ provider.pc = "checking"
  /\ svc.callers[0].pc = "done"
  /\ provider' =
       IF svc.callers[0].out = "threw"
       THEN [provider EXCEPT !.pc = "settled",
                             !.error = "Failed to initialize 0G Storage SDK",
                             !.isConnected = FALSE]
       ELSE IF NetworkStatus.rpc /\ NetworkStatus.indexer
       THEN [provider EXCEPT !.pc = "settled", !.isConnected = TRUE]
       ELSE [provider EXCEPT !.pc = "settled", !.isConnected = FALSE,
                             !.error = "Failed to connect to 0G Storage"]
  /\ UNCHANGED <<dlVars, mapVars, hookVars, wallet, svc>>

NextService ==
  \/ CallService
  \/ RpcSettled
  \/ ScriptSettled
  \/ CreateIndexer
  \/ FinishCall
  \/ ProviderMount
  \/ ProviderSettled

\* ======================================================================
\* Specifications
\* ======================================================================

\* The parts of the state a specification does not exercise stay as constructed.
DownloadAtRest ==
  /\ locations = <<>>
  /\ nodeMode = <<>>
  /\ file = [size |-> 0, startEntryIndex |-> 0, uploadedSegNum |-> 0]
  /\ withProof = enableProofVerification
  /\ pc = "uncalled"
  /\ nodeIdx = 0
  /\ taskInd = 0
  /\ segments = <<>>
  /\ calls = <<>>
  /\ result = NoResult

PinataAtRest ==
  /\ pins = <<>>
  /\ pinataConfigured = TRUE

CacheAtRest ==
  /\ localStorage = <<>>
  /\ cacheMode = "working"
  /\ published = <<>>

HooksAtRest ==
  /\ up = UploadIdle
  /\ dl = DownloadIdle
  /\ uploaded = <<>>

\* No wallet connected, no call made to the service, the provider not mounted.
WalletAtRest == wallet = WalletOf(Undefined)
ServiceAtRest == svc = SdkIdle /\ provider = ProviderUnmounted

InitDL ==
  /\ InitDownload /\ PinataAtRest /\ CacheAtRest /\ lastOp = NoOp /\ HooksAtRest
  /\ WalletAtRest /\ ServiceAtRest

SpecDownload == InitDL /\ [][NextDownload]_vars

InitPinata ==
  /\ InitIPFS /\ CacheAtRest /\ DownloadAtRest /\ HooksAtRest
  /\ WalletAtRest /\ ServiceAtRest

SpecIPFS == InitPinata /\ [][NextIPFS]_vars

InitCache ==
  /\ Init0G /\ PinataAtRest /\ DownloadAtRest /\ HooksAtRest
  /\ WalletAtRest /\ ServiceAtRest

Spec0G == InitCache /\ [][Next0G]_vars

\* A device on which storeMappingTo0G cached a record for CodeB earlier, or not.
CachedBefore ==
  saveMappingLocally(<<>>, CodeB,
    [rootHash |-> FileRoot, iv |-> "iv1", fileName |-> "a.txt", fileSize |-> "257",
     mimeType |-> "text/plain", uploader |-> "0xabc", uploadTime |-> "1700",
     txHash |-> "0xtx1"])

InitCodes ==
  /\ DownloadAtRest /\ PinataAtRest /\ CacheAtRest /\ HooksAtRest
  /\ lastOp = NoOp
  /\ WalletAtRest /\ ServiceAtRest

SpecCodes == InitCodes /\ [][NextCodes]_vars

\* A document another client pinned for CodeB earlier: it marks the file
\* encrypted and records neither key nor IV.
PinnedBefore ==
  <<PinBody(CodeB, FileRoot,
      [fileName |-> "a.txt", fileSize |-> "257", mimeType |-> "text/plain",
       isEncrypted |-> "true", encryptionKey |-> Undefined, iv |-> Undefined,
       uploader |-> "0xabc", uploadTime |-> "1700", txHash |-> "0xtx1"])>>

InitHooks ==
  /\ \E n \in 1..MaxNodes :
       /\ locations = [i \in 1..n |-> i]
       /\ nodeMode \in [1..n -> NodeModes]
  /\ file \in {f \in Files : f.startEntryIndex = 0}
  /\ withProof = enableProofVerification
  /\ pc = "uncalled"
  /\ nodeIdx = 0
  /\ taskInd = 0
  /\ segments = <<>>
  /\ calls = <<>>
  /\ result = NoResult
  /\ pins \in {<<>>, PinnedBefore}
  /\ pinataConfigured = TRUE
  /\ cacheMode = "working"
  /\ localStorage \in {<<>>, CachedBefore}
  /\ published = <<>>
  /\ lastOp = NoOp
  /\ HooksAtRest
  /\ \E a \in {Undefined, "0xabc"} : wallet = WalletOf(a)
  /\ ServiceAtRest

SpecHooks == InitHooks /\ [][NextHooks]_vars

InitWallet ==
  /\ DownloadAtRest /\ PinataAtRest /\ CacheAtRest /\ HooksAtRest
  /\ lastOp = NoOp
  /\ \E a \in WalletAddresses : wallet = WalletOf(a)
  /\ ServiceAtRest

SpecWallet == InitWallet /\ [][NextWallet]_vars

InitService ==
  /\ DownloadAtRest /\ PinataAtRest /\ CacheAtRest /\ HooksAtRest
  /\ lastOp = NoOp
  /\ WalletAtRest /\ ServiceAtRest

SpecService == InitService /\ [][NextService]_vars

\* ======================================================================
\* Claims about ZgStorageService.downloadFile (SpecDownload)
\* ======================================================================

CallsOf(op) == {i \in 1..Len(calls) : calls[i].op = op}
UsedFallback == CallsOf("downloadSegmentByTxSeq") # {}
Ranges(data) == [i \in 1..Len(data) |-> <<data[i].startIndex, data[i].endIndex>>]

\* C1: a download reported as successful holds the payload of every segment
\* of the file, in order: a failed or empty segment task makes the download
\* fail instead of leaving a gap in data that is returned as complete.
C1_NoTruncatedSuccess ==
  result.success =>
    \A i \in 1..StoredSegmentCount(file.size) :
      \E k \in 1..Len(result.data) :
        /\ Ranges(result.data)[k] = Ranges(StoredData(file))[i]
        /\ \A j \in 1..(i - 1) : \E m \in 1..(k - 1) :
             Ranges(result.data)[m] = Ranges(StoredData(file))[j]

\* The content fingerprint of a byte stream matches the root hash of the
\* file exactly when the stream is the stored one.
MatchesRoot(data, f) == data = StoredData(f)

\* C3: downloadFile returns success only with a byte stream whose digest
\* matches the root hash the fetch was addressed by.
C3_IntegrityAnchor ==
  result.success => MatchesRoot(result.data, file)

\* The fallback's fetch attempts for segment i, in the order made.
FallbackAttempts(i) ==
  LET idx == {k \in CallsOf("downloadSegmentByTxSeq") : calls[k].idx = i}
      F[S \in SUBSET idx] ==
        IF S = {} THEN <<>>
        ELSE LET m == CHOOSE x \in S : \A y \in S : x >= y
             IN Append(F[S \ {m}], calls[m].node)
  IN F[idx]

\* The first N-1 located nodes fail every fetch and the N-th serves it.
LastNodeServes ==
  /\ Len(locations) >= 1
  /\ \A n \in 1..(Len(locations) - 1) : nodeMode[n] = "down"
  /\ nodeMode[Len(locations)] = "healthy"

\* C4: with N ranked nodes of which the first N-1 fail and the N-th serves,
\* every segment task the fallback loop ran made exactly N attempts, one per
\* node in rank order, and the download returned that segment's bytes.
C4_FailOver ==
  (pc = "done" /\ LastNodeServes) =>
    \A i \in 0..(NumSegments(file) - 1) :
      (FallbackAttempts(i) # <<>> /\ ValidRange(file, FallbackRange(file, i))) =>
        /\ FallbackAttempts(i) = locations
        /\ result.success
        /\ \E k \in 1..Len(result.data) :
             result.data[k] = Payload(FallbackRange(file, i))

\* What each path asks the nodes for, and what healthy nodes make of it.
PrimaryRequests(f) == {TaskRange(f, t) : t \in 0..(NumTasks(f) - 1)}
FallbackRequests(f) == {FallbackRange(f, i) : i \in 0..(NumSegments(f) - 1)}

HealthyOutput(f, plan) ==
  LET F[k \in 0..Len(plan)] ==
        IF k = 0 THEN <<>>
        ELSE IF ValidRange(f, plan[k]) THEN Append(F[k - 1], Payload(plan[k]))
        ELSE F[k - 1]
  IN F[Len(plan)]

FallbackOutput(f) ==
  HealthyOutput(f, [k \in 1..NumSegments(f) |-> FallbackRange(f, k - 1)])

\* C5: with all nodes healthy a download served by the primary path asked
\* for the same segments as the fallback path asks for the same file info,
\* and returned the bytes the fallback returns.
C5_PathEquivalence ==
  (pc = "done" /\ AllHealthy /\ result.success /\ ~UsedFallback) =>
    /\ {TaskRange(file, calls[k].idx) : k \in CallsOf("downloadTask")}
         = FallbackRequests(file)
    /\ result.data = FallbackOutput(file)

\* initializeSDK succeeded: the indexer was asked for the locations.
SdkLoaded == CallsOf("getFileLocations") # {}

\* C11: with every located node healthy, a download of a stored file of 0, 1,
\* 255, 256 or 262145 bytes returns successfully with exactly the stored
\* bytes; a zero-length file is returned (as no bytes), not rejected.
C11_RoundTripSizes ==
  (pc = "done" /\ SdkLoaded /\ Len(locations) >= 1 /\ AllHealthy /\ file.startEntryIndex = 0) =>
    (result.success /\ result.data = StoredData(file))

FetchCalls == CallsOf("downloadTask") \cup CallsOf("downloadSegmentByTxSeq")
AllFetchesFailed == \A k \in FetchCalls : calls[k].out = "fail"

\* C12: a download in which every segment fetch failed, on the primary path
\* and then on the fallback path, returns success=false with an error
\* message and no data.
C12_Exhaustion ==
  (pc = "done" /\ AllFetchesFailed) =>
    /\ ~result.success
    /\ result.error \notin {Undefined, "pending"}
    /\ result.data = Undefined

\* Two located nodes; every task of the primary path and every segment of
\* the fallback path was tried and failed.
C12_Exhausted ==
  /\ pc = "done"
  /\ Len(locations) = MaxNodes
  /\ Cardinality(CallsOf("downloadTask")) = NumTasks(file)
  /\ Cardinality(CallsOf("downloadSegmentByTxSeq")) = NumSegments(file)
  /\ NumSegments(file) > 1
  /\ AllFetchesFailed
  /\ result = Failure("No segments were successfully downloaded")

\* C13: in the data of a successful download the segment payloads stand in
\* strictly ascending segment order.
C13_AscendingOrder ==
  result.success =>
    \A i, j \in 1..Len(result.data) :
      i < j => result.data[i].startIndex < result.data[j].startIndex

\* A successful download of a file of more than one segment through the fallback path.
C13_TwoSegments ==
  /\ pc = "done"
  /\ result.success
  /\ Len(result.data) >= 2
  /\ UsedFallback

\* The fallback's getFileInfo calls (FallbackInfo tags them with idx 1)
FallbackInfoCalls == {k \in CallsOf("getFileInfo") : calls[k].idx = 1}
FallbackCalls == FallbackInfoCalls \cup CallsOf("downloadSegmentByTxSeq")
FallbackEntered == pc \in {"fallback_info", "fallback_segments"} \/ FallbackInfoCalls # {}
Fetched(k) == calls[k].out \in {"ok", "corrupt"}

\* downloadFileData's try block threw: the setup failed, or the task loop
\* ended with nothing in the buffer.
PrimaryThrew ==
  \/ \E k \in CallsOf("queryFile") : calls[k].out = "throw"
  \/ /\ \E k \in CallsOf("queryFile") : calls[k].out = "ok"
     /\ Cardinality(CallsOf("downloadTask")) = NumTasks(file)
     /\ \A k \in CallsOf("downloadTask") : ~Fetched(k)

\* C14: the fallback path is entered exactly when the primary path threw,
\* after the primary path's requests and at most once, and a download that
\* went through the fallback succeeds only with what the fallback fetched.
C14_Sequencing ==
  /\ FallbackEntered <=> PrimaryThrew
  /\ Cardinality(CallsOf("queryFile")) <= 1
  /\ \A k \in FallbackCalls :
       /\ \E q \in CallsOf("queryFile") : q < k
       /\ \A t \in CallsOf("downloadTask") : t < k
  /\ \A k, m \in FallbackCalls :
       (calls[k].op = calls[m].op /\ calls[k].node = calls[m].node
          /\ calls[k].idx = calls[m].idx) => k = m
  /\ (pc = "done" /\ FallbackEntered) =>
       /\ result.success <=> \E k \in CallsOf("downloadSegmentByTxSeq") : Fetched(k)
       /\ result.success =>
            Len(result.data) = Cardinality({k \in CallsOf("downloadSegmentByTxSeq") : Fetched(k)})

\* Every task of the primary path failed, the fallback ran and delivered.
C14_FallbackDelivered ==
  /\ pc = "done"
  /\ CallsOf("downloadTask") # {}
  /\ FallbackEntered
  /\ result.success

\* The fallback ran after the primary path and failed, and so did the download.
C14_FallbackFailed ==
  /\ pc = "done"
  /\ CallsOf("downloadSegmentByTxSeq") # {}
  /\ ~result.success

\* A segment that passed the check against the root hash carries the bytes
\* that were stored.
Verified(seg) == seg.bytes = "stored"

\* C15: a download called with withProof = TRUE returns only segments that
\* passed the check against the root hash, whichever path fetched them.
C15_ProofChecked ==
  (withProof /\ result.success) =>
    \A i \in 1..Len(result.data) : Verified(result.data[i])

\* The downloadTask requests in the order made.
IsTask(c) == c.op = "downloadTask"
TaskCalls == SelectSeq(calls, IsTask)

\* The task loop of downloadFileData has run to its end.
TaskLoopOver ==
  /\ \E k \in CallsOf("queryFile") : calls[k].out = "ok"
  /\ pc # "primary_tasks"

\* The 1024-chunk segments that hold an entry of the file's entry range.
TouchedSegments(f) ==
  {e \div DEFAULT_SEGMENT_MAX_CHUNKS :
     e \in f.startEntryIndex..(f.startEntryIndex + NumChunks(f.size) - 1)}

\* C16: numChunks is the least number of 256-byte chunks that hold the file,
\* the task loop issues downloadTask for the task indices 0, 1, .. in
\* ascending order, each once, up to endSegmentIndex - startSegmentIndex, and
\* for a file of positive size the number of tasks is at least 1 and is the
\* number of 1024-chunk segments the entry range touches.
C16_PlannerBounds ==
  /\ NumChunks(file.size) * DEFAULT_CHUNK_SIZE >= file.size
  /\ (NumChunks(file.size) - 1) * DEFAULT_CHUNK_SIZE < file.size
  /\ StartSegmentIndex(file) * DEFAULT_SEGMENT_MAX_CHUNKS <= file.startEntryIndex
  /\ file.startEntryIndex < (StartSegmentIndex(file) + 1) * DEFAULT_SEGMENT_MAX_CHUNKS
  /\ \A i \in 1..Len(TaskCalls) : TaskCalls[i].idx = i - 1
  /\ Len(TaskCalls) <= NumTasks(file)
  /\ TaskLoopOver => Len(TaskCalls) = EndSegmentIndex(file) - StartSegmentIndex(file) + 1
  /\ file.size > 0 =>
       /\ NumTasks(file) >= 1
       /\ NumTasks(file) = Cardinality(TouchedSegments(file))

\* The task loop ended for a file whose entry range crosses a segment boundary.
C16_CrossesBoundary ==
  /\ TaskLoopOver
  /\ file.startEntryIndex % DEFAULT_SEGMENT_MAX_CHUNKS # 0
  /\ Len(TaskCalls) = 2

\* The number of chunks in the span requested for segment i.
SpanLength(f, i) == FallbackRange(f, i).endIndex - FallbackRange(f, i).startIndex

RECURSIVE SpanSum(_, _)
SpanSum(f, n) == IF n = 0 THEN 0 ELSE SpanSum(f, n - 1) + SpanLength(f, n - 1)

NoLocation == SdkLoaded /\ Len(locations) = 0

IsInfoQuery(c) == c.op = "getFileInfo" /\ c.idx = 0
InfoCalls == SelectSeq(calls, IsInfoQuery)

\* The getFileInfo requests of the fallback's loop, in the order made.
IsFallbackInfoQuery(c) == c.op = "getFileInfo" /\ c.idx = 1
FallbackInfoSeq == SelectSeq(calls, IsFallbackInfoQuery)

\* A loop's requests go to the nodes in the indexer's order and stop at the
\* first finalized answer.
InOrderUntilFinal(q) ==
  /\ Len(q) <= Len(locations)
  /\ \A i \in 1..Len(q) : q[i].node = locations[i]
  /\ \A i \in 1..(Len(q) - 1) : q[i].out # "final"

NoneFinal(q) == \A i \in 1..Len(q) : q[i].out # "final"

\* C24: downloadFile asks the located nodes for the file info in the
\* indexer's order, skips a node that throws or has no finalized file, stops
\* at the first finalized answer, and when no node has one returns
\* success = FALSE without starting any segment download.
C24_InfoFailOver ==
  /\ InOrderUntilFinal(InfoCalls)
  /\ InOrderUntilFinal(FallbackInfoSeq)
  /\ NoneFinal(InfoCalls) =>
       /\ CallsOf("queryFile") = {}
       /\ FetchCalls = {}
       /\ FallbackInfoCalls = {}
       /\ pc \in {"idle", "info", "done"}
       /\ pc = "done" => ~result.success
       /\ (pc = "done" /\ SdkLoaded /\ Len(locations) > 0) =>
            /\ Len(InfoCalls) = Len(locations)
            /\ result = Failure("File not found or not finalized")

\* The first node had no finalized file, a later one had, and the file arrived.
C24_SecondNodeAnswered ==
  /\ pc = "done"
  /\ result.success
  /\ Len(InfoCalls) >= 2
  /\ InfoCalls[1].out # "final"

\* ======================================================================
\* Claims about the share-code mapping (SpecIPFS, Spec0G)
\* ======================================================================

InvalidFormat(op) ==
  /\ op.outcome = "threw"
  /\ op.error = "Invalid share code format"
  /\ op.io = {}

\* C7: every persistence and resolution operation given a malformed share
\* code fails with the invalid-format error and has made no network request,
\* no storage upload and no cache access.
C7_ValidateFirst ==
  (lastOp.op # "none" /\ ~validateShareCode(lastOp.code)) => InvalidFormat(lastOp)

\* C8: getMappingFrom0G for a valid code without a cache entry fails, and
\* whatever getMappingFrom0G returns carries a non-empty rootHash.
C8_Unresolved ==
  lastOp.op = "getMappingFrom0G" =>
    /\ (validateShareCode_0G(lastOp.code) /\ MappingKey(lastOp.code) \notin DOMAIN localStorage)
         => lastOp.outcome = "threw"
    /\ lastOp.outcome = "returned" => ~Falsy(Get(lastOp.value, "rootHash"))

RoundTripFields ==
  {"rootHash", "iv", "fileName", "fileSize", "mimeType", "uploader", "uploadTime"}

\* C9: on a device with a working cache, getMappingFrom0G for a valid code
\* that storeMappingTo0G published returns a record equal to the published
\* one in rootHash, iv, fileName, fileSize, mimeType, uploader and uploadTime,
\* and for a valid code never published it fails.
C9_RoundTrip ==
  (lastOp.op = "getMappingFrom0G" /\ validateShareCode_0G(lastOp.code) /\ cacheMode = "working") =>
    IF lastOp.code \in DOMAIN published
    THEN /\ lastOp.outcome = "returned"
         /\ \A k \in RoundTripFields : Get(lastOp.value, k) = published[lastOp.code][k]
    ELSE /\ lastOp.outcome = "threw"
         /\ lastOp.error = "Mapping record not found."

\* An encrypted, fully described record published under CodeA and resolved,
\* with CodeB never published.
C9_Resolved ==
  /\ cacheMode = "working"
  /\ lastOp.op = "getMappingFrom0G"
  /\ lastOp.code = CodeA
  /\ lastOp.outcome = "returned"
  /\ DOMAIN published = {CodeA}
  /\ published[CodeA].iv = "iv1"
  /\ published[CodeA].fileName = "a.txt"
  /\ published[CodeA].rootHash = "0xroot1"

\* The record resolution returns for a code from the cache `ls`.
Resolves(ls, shareCode) == loadMappingLocally(ls, shareCode)

\* C20: once a record is stored under a share code, no operation changes or
\* removes the record that resolution returns for that code; a later store
\* under the same code does not overwrite it.
C20_RecordImmutable ==
  [][\A c \in ShareCodes :
       Resolves(localStorage, c) # Null =>
         Resolves(localStorage', c) = Resolves(localStorage, c)]_vars

\* A string cut at its dashes.
RECURSIVE Split(_)
Split(s) ==
  LET dashes == {i \in 1..Len(s) : s[i] = "-"} IN
  IF dashes = {} THEN <<s>>
  ELSE LET i == CHOOSE x \in dashes : \A y \in dashes : x <= y
       IN <<SubSeq(s, 1, i - 1)>> \o Split(SubSeq(s, i + 1, Len(s)))

\* The grammar: the prefix, then four groups of four characters of [a-z0-9]
\* joined by dashes.
InGrammar(s) ==
  /\ StartsWith(s, SHARE_CODE_PREFIX)
  /\ LET groups == Split(SubSeq(s, Len(SHARE_CODE_PREFIX) + 1, Len(s))) IN
     /\ Len(groups) = 4
     /\ \A k \in 1..4 :
          /\ Len(groups[k]) = 4
          /\ \A i \in 1..4 : groups[k][i] \in Alnum

\* C22: both validateShareCode implementations accept exactly the strings of
\* the grammar, and so agree on every string.
C22_Grammar ==
  lastOp.op = "validateShareCode" =>
    /\ lastOp.value.first = Bool(InGrammar(lastOp.code))
    /\ lastOp.value.second = lastOp.value.first

\* A well-formed code followed by one more character was validated.
C22_TrailingCharacter ==
  /\ lastOp.op = "validateShareCode"
  /\ Len(lastOp.code) = Len(CodeA) + 1
  /\ SubSeq(lastOp.code, 1, Len(CodeA)) = CodeA
  /\ lastOp.value.first = "false"

\* C23: a generated code satisfies validateShareCode, and
\* extractCodeFromShareCode of it is the 19-character body that follows the
\* prefix in the code.
C23_GenerateValidate ==
  lastOp.op \in {"generateRandomShareCode", "generateShareCode"} =>
    /\ lastOp.value.valid = "true"
    /\ Len(lastOp.value.body) = 19
    /\ SHARE_CODE_PREFIX \o lastOp.value.body = lastOp.code

\* A code was generated from draws at both ends of the alphabet.
C23_Generated ==
  /\ lastOp.op = "generateRandomShareCode"
  /\ lastOp.value.body[1] = "z"
  /\ lastOp.value.body[4] = "a"
  /\ lastOp.value.body[19] = "9"

\* storeMappingTo0G was the last operation, with a well-formed code.
StoredValidCode == lastOp.op = "storeMappingTo0G" /\ validateShareCode_0G(lastOp.code)

\* The upload of the mapping file failed: uploadFile's failure result carries
\* an empty root hash (part_002:463-471).
MappingUploadFailed == lastOp.outcome = "returned" /\ lastOp.value.rootHash = ""

\* The code the last operation was given is cached and resolves to the record
\* stored under it.
CachedAndResolves ==
  /\ MappingKey(lastOp.code) \in DOMAIN localStorage
  /\ getMappingFrom0G(lastOp.code).outcome = "returned"
  /\ Get(getMappingFrom0G(lastOp.code).value, "rootHash") = published[lastOp.code].rootHash

\* C25: storeMappingTo0G with a valid code does not fail whatever the upload
\* returned, returns an empty rootHash and txHash after a failed upload, and
\* leaves a cache entry under which getMappingFrom0G then resolves the code.
C25_CachesRegardless ==
  StoredValidCode =>
    /\ lastOp.outcome = "returned"
    /\ MappingUploadFailed => lastOp.value.txHash = ""
    /\ CachedAndResolves

\* C25 as amended: the same on a device with a working local cache.
C25_CachesWhenWorking ==
  StoredValidCode =>
    /\ lastOp.outcome = "returned"
    /\ MappingUploadFailed => lastOp.value.txHash = ""
    /\ cacheMode = "working" => CachedAndResolves

\* The upload failed, the cache works, the record was stored and resolves.
C25_FailedUploadCached ==
  /\ StoredValidCode
  /\ MappingUploadFailed
  /\ cacheMode = "working"
  /\ CachedAndResolves

\* ======================================================================
\* Claims about the hooks (SpecHooks)
\* ======================================================================

\* C2: a download through hooks/useFileDownload.ts of a share code whose
\* upload through useFileUpload completed earlier on the same device
\* resolves to a record whose root hash is the one the upload returned.
C2_EndToEnd ==
  (dl.variant = "0g" /\ dl.mutation # "idle" /\ dl.shareCode \in DOMAIN uploaded) =>
    /\ dl.fileMetadata # Null
    /\ dl.fileMetadata.rootHash = dl.uploadedRoot

KeyOf(text) == Get(JSONParse(text), "encryptionKey")

\* C6: UploadOptions carries no choice to store the key, so every upload is a
\* default one: no pinned document and no cached record holds an encryption key.
C6_KeyCustody ==
  /\ \A i \in 1..Len(pins) : KeyOf(pins[i].pinataContent) = Undefined
  /\ \A k \in DOMAIN localStorage : KeyOf(localStorage[k]) = Undefined

\* C10: decryptFileFromBlob is called only on a stream that downloadFile
\* returned as a success and whose digest is the file's root hash.
C10_DecryptAfterVerify ==
  dl.pc = "decrypting" => (result.success /\ MatchesRoot(result.data, file))

\* The resolved record marks the file encrypted (useFileDownload.ts:61, 94).
MarkedEncrypted == dl.fileMetadata # Null /\ dl.fileMetadata.isEncrypted = "true"

DownloadEvents == {dl.events[i] : i \in 1..Len(dl.events)}

\* The mutation has settled.
DownloadSettled == dl.pc = "idle" /\ dl.mutation \in {"success", "error"}

\* decryptFileFromBlob was called and did not return a plaintext.
CipherFailed ==
  /\ "decryptFileFromBlob" \in DownloadEvents
  /\ \/ "save" \notin DownloadEvents
     \/ dl.data = Null
     \/ ~dl.data.decrypted

\* C19: a download of a file marked encrypted that has no key, or no IV, or
\* whose cipher fails, settles in error: no link is clicked, no result is
\* returned, and downloadInfo is null and progress 0 afterwards.
C19_EncryptionFatal ==
  (/\ DownloadSettled
   /\ MarkedEncrypted
   /\ \/ Falsy(dl.encryptionKey)
      \/ Falsy(dl.fileMetadata.iv)
      \/ CipherFailed) =>
    /\ dl.mutation = "error"
    /\ "save" \notin DownloadEvents
    /\ dl.data = Null
    /\ dl.downloadInfo = Null
    /\ dl.progress = 0

\* The file was fetched, the cipher was called on it and failed.
C19_CipherFailed ==
  /\ DownloadSettled
  /\ MarkedEncrypted
  /\ result.success
  /\ CipherFailed

\* The step in which a download resolves its share code to a record.
DownloadResolves == dl'.runs # dl.runs /\ dl'.fileMetadata # Null

\* The IV of the mapping record the cache holds for the code being resolved.
MappingIv == Get(getMappingFrom0G(dl'.shareCode).value, "iv")

\* The cipher is called only on a record marked encrypted, with a key from
\* the caller and an IV.
DecryptGuarded ==
  "decryptFileFromBlob" \in DownloadEvents =>
    /\ MarkedEncrypted
    /\ ~Falsy(dl.encryptionKey)
    /\ ~Falsy(dl.fileMetadata.iv)

\* Resolved through getMappingFrom0G, the record is marked encrypted exactly
\* when the mapping record has a non-empty iv.
MarkFollowsIv ==
  (DownloadResolves /\ dl'.variant = "0g") =>
    (dl'.fileMetadata.isEncrypted = "true" <=> ~Falsy(MappingIv))

\* An encrypted file without a key ends the download in the resolving step.
KeylessRejected ==
  (DownloadResolves /\ dl'.fileMetadata.isEncrypted = "true" /\ Falsy(dl'.encryptionKey)) =>
    /\ dl'.mutation = "error"
    /\ dl'.error = "This file is encrypted. Please provide the decryption key."
    /\ "downloadFile" \notin {dl'.events[i] : i \in 1..Len(dl'.events)}
    /\ UNCHANGED dlVars

\* C29: decryptFileFromBlob is called only on a record marked encrypted, with
\* a non-empty key from the caller and a non-empty IV; resolved through
\* getMappingFrom0G a record is marked encrypted exactly when the mapping
\* record has a non-empty iv; and a download of an encrypted file without a
\* key ends in error in the resolving step, before downloadFile is entered.
C29_DecryptPreconditions ==
  []DecryptGuarded /\ [][MarkFollowsIv /\ KeylessRejected]_vars

\* The cipher is called on a file resolved through getMappingFrom0G.
C29_Decrypting ==
  /\ dl.pc = "decrypting"
  /\ dl.variant = "0g"
  /\ MarkedEncrypted
  /\ ~Falsy(dl.fileMetadata.iv)

\* The document of a pin as it is read back.
PinnedDocument(pin) == JSONParse(pin.pinataContent)

\* C21: a record is pinned only by the upload flow after uploadFile returned
\* success, with the root hash and the transaction hash of that result and the
\* minted share code; an upload that ends in error pins nothing in that step
\* and exposes no uploadedInfo.
C21_NoPartialRecord ==
  [][/\ pins' # pins =>
          /\ up.pc = "storing"
          /\ up.uploadResult # Null
          /\ up.uploadResult.success
          /\ pins' = Append(pins, pins'[Len(pins')])
          /\ LET doc == PinnedDocument(pins'[Len(pins')]) IN
             /\ Get(doc, "rootHash") = up.uploadResult.rootHash
             /\ Get(doc, "txHash") = up.uploadResult.txHash
             /\ Get(doc, "shareCode") = up.shareCode
     /\ up'.mutation = "error" =>
          /\ up'.uploadedInfo = Null
          /\ pins' = pins
     /\ (up'.uploadedInfo # Null /\ up' # up) => pins' # pins]_vars

\* An upload has completed: its record is pinned and its share code exposed.
C21_UploadCompleted ==
  /\ up.mutation = "success"
  /\ up.uploadedInfo # Null
  /\ \E i \in 1..Len(pins) :
       Get(PinnedDocument(pins[i]), "shareCode") = up.uploadedInfo.shareCode

\* ======================================================================
\* Claims about the wallet, the service instance and the provider
\* (SpecWallet, SpecService)
\* ======================================================================

\* An upload is in flight that was started under another address than the
\* one now connected.
StaleUpload ==
  /\ up.pc # "idle"
  /\ ~Falsy(wallet.address)
  /\ up.address # wallet.address

\* C26: after the wallet changed to another address, an upload started under
\* the previous address never populates uploadedInfo and never sets the
\* progress above 0.
C26_StaleUploadSilent ==
  [][(StaleUpload /\ wallet'.address = wallet.address) =>
       (up'.uploadedInfo = Null /\ up'.progress = 0)]_vars

\* initializeSDK has returned to a caller.
Initialized(p) == svc.callers[p].pc = "using"

\* C27: whatever the interleaving of the calls on the instance, the SDK
\* script is appended at most once, the indexer is assigned at most once, and
\* the indexer is non-null once initializeSDK has returned.
C27_LoadOnce ==
  /\ svc.scripts <= 1
  /\ svc.created <= 1
  /\ \A p \in Callers : Initialized(p) => svc.indexer # 0

\* The status check of the provider's mount has settled.
StatusSettled == provider.pc = "settled"

\* C30: isConnected holds only with a service instance, a status check that
\* returned with rpc and indexer reachable, and no error; after a status check
\* that threw, isConnected is false and error is set; isConnected and a
\* defined error never hold together.
C30_ConnectionInvariant ==
  /\ provider.isConnected =>
       /\ provider.zgStorage # "null"
       /\ StatusSettled
       /\ svc.callers[0].out = "returned"
       /\ NetworkStatus.rpc /\ NetworkStatus.indexer
       /\ provider.error = Undefined
  /\ (StatusSettled /\ svc.callers[0].out = "threw") =>
       /\ ~provider.isConnected
       /\ provider.error # Undefined
  /\ ~(provider.isConnected /\ provider.error # Undefined)

\* The provider is connected while other calls run on the instance.
C30_Connected ==
  /\ provider.isConnected
  /\ svc.indexer # 0
  /\ \E p \in 1..MaxCallers : svc.callers[p].pc # "idle"


\* An uploadFile or downloadFile call that has ended.
Ended(p) ==
  /\ svc.callers[p].pc = "done"
  /\ svc.callers[p].op \in {"uploadFile", "downloadFile"}

====
